---------------------------- MODULE Spec2Model ----------------------------
(***************************************************************************)
(* A model of parts of SwiftShaderGL-DirectFB:                             *)
(*   - the GLSL preprocessor's DirectiveParser (SpecCond, SpecMacro,       *)
(*     SpecPrologue),                                                      *)
(*   - the Reactor Variable materialization machinery (SpecVariable,       *)
(*     SpecFlow).                                                          *)
(* Strings whose characters the code inspects (identifiers, numbers) are   *)
(* tuples of one-character strings.                                        *)
(***************************************************************************)
EXTENDS Integers, Sequences, FiniteSets, TLC

(***************************************************************************)
(* Bounds of the model.                                                    *)
(***************************************************************************)
MaxLine == 4               \* input lines the tokenizer may deliver
MaxDepth == 2              \* nesting of conditional blocks in the input
MaxExpansionCount == 1     \* invocations of one macro in progress
MaxMacroExpansionDepth == 2  \* the constructor's maxMacroExpansionDepth
MaxVars == 2               \* Reactor variables alive at once
MaxValue == 2              \* SSA values stored to variables
MaxNest == 1               \* control-flow constructs open at once
MaxLoopDepth == 2          \* nesting of the loops of a shader
MaxErrors == 3             \* errors after which the traversal is not followed further
Alignment == 2             \* the allocator's alignment, in bytes
PageWords == 3             \* the size of a page, in units of the alignment
MaxBytes == 5              \* bytes one call of allocate may ask for
MaxPages == 3              \* blocks the heap can hold at once
MaxCalls == 4              \* calls of allocate
MaxPush == 2               \* calls of push not yet matched by a pop
MaxChars == 4              \* characters of the strings given to an Input
MaxStrings == 2            \* strings given to an Input
MaxSymbols == 2            \* external symbols a routine's code asks for
MaxQuality == 1            \* the values of a configuration setting: 0..MaxQuality
MaxPackets == 2            \* packets of a client that the server has not received yet
MaxWindows == 2            \* native windows
MaxSurfaces == 3           \* surfaces that exist at a time

INT_MAX == 2147483647

Range(s) == {s[i] : i \in 1..Len(s)}

(***************************************************************************)
(* Texts.                                                                  *)
(***************************************************************************)
sA == <<"A">>
sB == <<"B">>
sx == <<"x">>
sGL_ES == <<"G", "L", "_", "E", "S">>
sGL_X == <<"G", "L", "_", "X">>
s__VERSION__ == <<"_", "_", "V", "E", "R", "S", "I", "O", "N", "_", "_">>
sSTDGL == <<"S", "T", "D", "G", "L">>
ses == <<"e", "s">>
kDefined == <<"d", "e", "f", "i", "n", "e", "d">>
kDirectiveDefine == <<"d", "e", "f", "i", "n", "e">>
kDirectiveUndef == <<"u", "n", "d", "e", "f">>
kDirectiveIf == <<"i", "f">>
kDirectiveIfdef == <<"i", "f", "d", "e", "f">>
kDirectiveIfndef == <<"i", "f", "n", "d", "e", "f">>
kDirectiveElse == <<"e", "l", "s", "e">>
kDirectiveElif == <<"e", "l", "i", "f">>
kDirectiveEndif == <<"e", "n", "d", "i", "f">>
kDirectiveError == <<"e", "r", "r", "o", "r">>
kDirectivePragma == <<"p", "r", "a", "g", "m", "a">>
kDirectiveExtension == <<"e", "x", "t", "e", "n", "s", "i", "o", "n">>
kDirectiveVersion == <<"v", "e", "r", "s", "i", "o", "n">>
kDirectiveLine == <<"l", "i", "n", "e">>

(***************************************************************************)
(* Tokens: (type, text, leading-space flag).  The location of a token is   *)
(* the tokenizer's line when the token's line is read.                     *)
(***************************************************************************)
Tok(ty, tx, space) == [type |-> ty, text |-> tx, sp |-> space]
Id(tx) == Tok("IDENTIFIER", tx, TRUE)
Num(tx) == Tok("CONST_INT", tx, TRUE)
Punct(ty) == Tok(ty, <<ty>>, FALSE)
NoToken == Tok("NONE", <<>>, FALSE)

\* The i-th token of a directive line; past the line's end the tokenizer
\* delivers the end-of-directive token.
Tk(toks, eod, i) == IF i <= Len(toks) THEN toks[i] ELSE Tok(eod, <<>>, FALSE)

DigitVal(c) ==
    CASE c = "0" -> 0 [] c = "1" -> 1 [] c = "2" -> 2 [] c = "3" -> 3
      [] c = "4" -> 4 [] c = "5" -> 5 [] c = "6" -> 6 [] c = "7" -> 7
      [] c = "8" -> 8 [] c = "9" -> 9

\* The value of a decimal text, or -1 when it does not fit an int.
RECURSIVE DecimalValue(_)
DecimalValue(text) ==
    IF text = <<>> THEN 0
    ELSE LET hi == DecimalValue(SubSeq(text, 1, Len(text) - 1))
             d == DigitVal(text[Len(text)])
         IN  IF hi < 0 \/ hi > (INT_MAX - d) \div 10 THEN -1 ELSE 10 * hi + d

DigitChar(d) ==
    CASE d = 0 -> "0" [] d = 1 -> "1" [] d = 2 -> "2" [] d = 3 -> "3"
      [] d = 4 -> "4" [] d = 5 -> "5" [] d = 6 -> "6" [] d = 7 -> "7"
      [] d = 8 -> "8" [] d = 9 -> "9"

\* the decimal text of a number >= 0
RECURSIVE IntToString(_)
IntToString(n) ==
    IF n < 10 THEN <<DigitChar(n)>> ELSE Append(IntToString(n \div 10), DigitChar(n % 10))

\* Token::iValue: the value, and whether it fits an int.
iValue(text) ==
    LET v == DecimalValue(text)
    IN  [ok |-> v >= 0, v |-> IF v >= 0 THEN v ELSE 0]

getDirective(token) ==
    IF token.type # "IDENTIFIER" THEN "DIRECTIVE_NONE"
    ELSE IF token.text = kDirectiveDefine THEN "DIRECTIVE_DEFINE"
    ELSE IF token.text = kDirectiveUndef THEN "DIRECTIVE_UNDEF"
    ELSE IF token.text = kDirectiveIf THEN "DIRECTIVE_IF"
    ELSE IF token.text = kDirectiveIfdef THEN "DIRECTIVE_IFDEF"
    ELSE IF token.text = kDirectiveIfndef THEN "DIRECTIVE_IFNDEF"
    ELSE IF token.text = kDirectiveElse THEN "DIRECTIVE_ELSE"
    ELSE IF token.text = kDirectiveElif THEN "DIRECTIVE_ELIF"
    ELSE IF token.text = kDirectiveEndif THEN "DIRECTIVE_ENDIF"
    ELSE IF token.text = kDirectiveError THEN "DIRECTIVE_ERROR"
    ELSE IF token.text = kDirectivePragma THEN "DIRECTIVE_PRAGMA"
    ELSE IF token.text = kDirectiveExtension THEN "DIRECTIVE_EXTENSION"
    ELSE IF token.text = kDirectiveVersion THEN "DIRECTIVE_VERSION"
    ELSE IF token.text = kDirectiveLine THEN "DIRECTIVE_LINE"
    ELSE "DIRECTIVE_NONE"

isConditionalDirective(directive) ==
    directive \in {"DIRECTIVE_IF", "DIRECTIVE_IFDEF", "DIRECTIVE_IFNDEF",
                   "DIRECTIVE_ELSE", "DIRECTIVE_ELIF", "DIRECTIVE_ENDIF"}

isEOD(token) == token.type = "NEWLINE" \/ token.type = "LAST"

isMacroNameReserved(name) ==
    Len(name) >= 3 /\ SubSeq(name, 1, 3) = <<"G", "L", "_">>

hasDoubleUnderscores(name) ==
    \E i \in 1..(Len(name) - 1) : name[i] = "_" /\ name[i + 1] = "_"

isMacroPredefined(name, macroSet) ==
    IF name \in DOMAIN macroSet THEN macroSet[name].predefined ELSE FALSE

(***************************************************************************)
(* The parser's state as a record P:                                       *)
(*   stack    mConditionalStack        macros  *mMacroSet                  *)
(*   past     mPastFirstStatement      seen    mSeenNonPreprocessorToken   *)
(*   version  mShaderVersion           line, file  the tokenizer's numbers *)
(*   diags    what mDiagnostics was told during the current step           *)
(*   calls    what mDirectiveHandler was told during the current step      *)
(*   evald    whether an expression was handed to the ExpressionParser     *)
(*   unterminated  the blocks reported as unterminated during the step     *)
(***************************************************************************)
report(P, id) == [P EXCEPT !.diags = @ \cup {id}]
\* if(cond) mDiagnostics->report(id, ...)
reportIf(P, cond, id) == IF cond THEN report(P, id) ELSE P

Macro(ty, name, params, repl, predef) ==
    [type |-> ty, name |-> name, predefined |-> predef, parameters |-> params,
     replacements |-> repl, expansionCount |-> 0]

\* Macro::equals
Macro_equals(a, b) == a.replacements = b.replacements

\* PredefineMacro: (*macroSet)[name] = an object-like predefined macro
PredefineMacro(macroSet, name, value) ==
    LET m == Macro("kTypeObj", name, <<>>,
                   <<Tok("CONST_INT", IntToString(value), FALSE)>>, TRUE)
    IN  [n \in DOMAIN macroSet \cup {name} |-> IF n = name THEN m ELSE macroSet[n]]

skipping(P) ==
    IF P.stack = <<>> THEN FALSE
    ELSE P.stack[Len(P.stack)].skipBlock \/ P.stack[Len(P.stack)].skipGroup


(***************************************************************************)
(* The lexers stacked for a #if / #elif expression.  Each is a lazy        *)
(* stream: a token is produced (and a diagnostic about it reported) only   *)
(* when the layer above asks for it.  A stream is [toks, err]: the tokens  *)
(* before the end of the directive, and whether asking for the token after *)
(* them reports PP_UNEXPECTED_TOKEN.                                       *)
(***************************************************************************)
RECURSIVE DefinedParser_lex(_, _, _, _)
DefinedParser_lex(toks, eod, i, macroSet) ==
    LET t == Tk(toks, eod, i)
    IN  IF isEOD(t) THEN [toks |-> <<>>, err |-> FALSE]
        ELSE IF t.type # "IDENTIFIER" \/ t.text # kDefined
        THEN LET r == DefinedParser_lex(toks, eod, i + 1, macroSet)
             IN  [r EXCEPT !.toks = <<t>> \o @]
        ELSE LET paren == Tk(toks, eod, i + 1).type = "("
                 k == IF paren THEN i + 2 ELSE i + 1
                 name == Tk(toks, eod, k)
                 expression == IF name.text \in DOMAIN macroSet THEN <<"1">> ELSE <<"0">>
                 last == IF paren THEN k + 1 ELSE k
             IN  IF name.type # "IDENTIFIER" THEN [toks |-> <<>>, err |-> TRUE]
                 ELSE IF paren /\ Tk(toks, eod, k + 1).type # ")"
                 THEN [toks |-> <<>>, err |-> TRUE]
                 ELSE LET r == DefinedParser_lex(toks, eod, last + 1, macroSet)
                      IN  [r EXCEPT !.toks =
                              <<Tok("CONST_INT", expression, Tk(toks, eod, last).sp)>> \o @]

\* MacroExpander: an identifier that names an object-like macro is replaced
\* by the expansion of its replacement list, to the given depth.
RECURSIVE MacroExpander_expand(_, _, _)
MacroExpander_expand(toks, macroSet, depth) ==
    IF toks = <<>> THEN <<>>
    ELSE LET t == Head(toks)
             rest == MacroExpander_expand(Tail(toks), macroSet, depth)
         IN  IF /\ t.type = "IDENTIFIER"
                /\ t.text \in DOMAIN macroSet
                /\ macroSet[t.text].type = "kTypeObj"
                /\ depth > 0
             THEN MacroExpander_expand(macroSet[t.text].replacements, macroSet, depth - 1)
                      \o rest
             ELSE <<t>> \o rest

\* ExpressionParser::parse, for the expressions  n | !e | (e) : the value,
\* the index of the token it stopped at, validity and the diagnostics.
\* The value of !e, r being the result for e.
ExpressionParser_not(r) == [r EXCEPT !.v = IF r.v = 0 /\ r.syntaxOk THEN 1 ELSE 0]

\* The end of (e, r being the result for e: the ')' is due at r.i.
ExpressionParser_paren(toks, eod, r) ==
    IF r.syntaxOk /\ Tk(toks, eod, r.i).type = ")"
    THEN [r EXCEPT !.i = @ + 1]
    ELSE IF r.syntaxOk
    THEN [v |-> 0, i |-> r.i, valid |-> FALSE, syntaxOk |-> FALSE,
          diags |-> r.diags \cup {"PP_INVALID_EXPRESSION"}]
    ELSE r

RECURSIVE ExpressionParser_parse(_, _, _, _, _)
ExpressionParser_parse(toks, eod, i, unexpectedIdentifier, mustFit) ==
    LET t == Tk(toks, eod, i)
    IN  IF t.type = "!"
        THEN ExpressionParser_not(
                 ExpressionParser_parse(toks, eod, i + 1, unexpectedIdentifier, mustFit))
        ELSE IF t.type = "CONST_INT"
        THEN IF mustFit /\ ~iValue(t.text).ok
             THEN [v |-> 0, i |-> i + 1, valid |-> FALSE, syntaxOk |-> TRUE,
                   diags |-> {"PP_INTEGER_OVERFLOW"}]
             ELSE [v |-> DecimalValue(t.text), i |-> i + 1, valid |-> TRUE,
                   syntaxOk |-> TRUE, diags |-> {}]
        ELSE IF t.type = "IDENTIFIER"
        THEN [v |-> 0, i |-> i + 1, valid |-> FALSE, syntaxOk |-> TRUE,
              diags |-> {unexpectedIdentifier}]
        ELSE IF t.type = "("
        THEN ExpressionParser_paren(toks, eod,
                 ExpressionParser_parse(toks, eod, i + 1, unexpectedIdentifier, mustFit))
        ELSE [v |-> 0, i |-> i, valid |-> FALSE, syntaxOk |-> FALSE,
              diags |-> {"PP_INVALID_EXPRESSION"}]

\* The diagnostics of a stacked run: the parser's own, and the stream's if
\* the parser asked for the token after the stream's last.
StreamDiags(stream, r) ==
    r.diags \cup (IF stream.err /\ r.i > Len(stream.toks) THEN {"PP_UNEXPECTED_TOKEN"} ELSE {})

\* The end of parseExpressionIf: r is what ExpressionParser::parse returned
\* for the stream; then the check that the end of the directive follows.
parseExpressionIf_end(P, stream, eod, r) ==
    [P |-> reportIf([P EXCEPT !.diags = @ \cup StreamDiags(stream, r), !.evald = TRUE],
                    ~isEOD(Tk(stream.toks, eod, r.i)),
                    "PP_CONDITIONAL_UNEXPECTED_TOKEN"),
     expression |-> r.v]

\* expressionParser.parse(token, &expression, false, errorSettings, &valid)
\* over the stream of the lexers stacked under it
parseExpressionIf_parse(P, stream, eod) ==
    parseExpressionIf_end(P, stream, eod,
        ExpressionParser_parse(stream.toks, eod, 1,
                               "PP_CONDITIONAL_UNEXPECTED_TOKEN", FALSE))

\* MacroExpander macroExpander(&definedParser, ...): the stream with its
\* macros expanded
MacroExpander_over(stream, macroSet) ==
    [toks |-> MacroExpander_expand(stream.toks, macroSet, MaxMacroExpansionDepth),
     err |-> stream.err]

\* parseExpressionIf with the MacroExpander under the DefinedParser
parseExpressionIf_expandingFirst(P, toks, eod) ==
    parseExpressionIf_parse(P,
        DefinedParser_lex(MacroExpander_expand(toks, P.macros, MaxMacroExpansionDepth),
                          eod, 1, P.macros),
        eod)

parseExpressionIf(P, toks, eod) ==
    parseExpressionIf_parse(P,
        MacroExpander_over(DefinedParser_lex(toks, eod, 1, P.macros), P.macros),
        eod)

parseExpressionIfdef(P, toks, eod) ==
    LET t == Tk(toks, eod, 1)
    IN  IF t.type # "IDENTIFIER"
        THEN [P |-> report(P, "PP_UNEXPECTED_TOKEN"), expression |-> 0]
        ELSE LET expression == IF t.text \in DOMAIN P.macros THEN 1 ELSE 0
             IN  IF ~isEOD(Tk(toks, eod, 2))
                 THEN [P |-> report(P, "PP_CONDITIONAL_UNEXPECTED_TOKEN"),
                       expression |-> expression]
                 ELSE [P |-> P, expression |-> expression]

ConditionalBlock(type) ==
    [type |-> type, skipBlock |-> FALSE, skipGroup |-> FALSE,
     foundElseGroup |-> FALSE, foundValidGroup |-> FALSE]

\* mConditionalStack.push_back(block), e being the expression's result
parseConditionalIf_push(e, block) ==
    [e.P EXCEPT !.stack =
        Append(@, [block EXCEPT !.skipGroup = (e.expression = 0),
                                !.foundValidGroup = (e.expression # 0)])]

\* ifndef: expression = (expression == 0) ? 1 : 0
parseExpressionIfndef(d) == [d EXCEPT !.expression = IF @ = 0 THEN 1 ELSE 0]

\* token is the directive's name token; toks is what follows it
parseConditionalIf(P, token, toks, eod) ==
    IF skipping(P)
    THEN [P EXCEPT !.stack =
             Append(@, [ConditionalBlock(token.text) EXCEPT !.skipBlock = TRUE])]
    ELSE parseConditionalIf_push(
             CASE getDirective(token) = "DIRECTIVE_IF" -> parseExpressionIf(P, toks, eod)
               [] getDirective(token) = "DIRECTIVE_IFDEF" ->
                      parseExpressionIfdef(P, toks, eod)
               [] getDirective(token) = "DIRECTIVE_IFNDEF" ->
                      parseExpressionIfndef(parseExpressionIfdef(P, toks, eod)),
             ConditionalBlock(token.text))

\* parseElse whose group is never skipped
parseElse_emitting(P, toks, eod) ==
    IF P.stack = <<>> THEN report(P, "PP_CONDITIONAL_ELSE_WITHOUT_IF")
    ELSE LET n == Len(P.stack)
             block == P.stack[n]
         IN  IF block.skipBlock THEN P
             ELSE IF block.foundElseGroup
             THEN report(P, "PP_CONDITIONAL_ELSE_AFTER_ELSE")
             ELSE LET P1 == [P EXCEPT !.stack[n] =
                                [block EXCEPT !.foundElseGroup = TRUE,
                                              !.skipGroup = FALSE,
                                              !.foundValidGroup = TRUE]]
                  IN  IF ~isEOD(Tk(toks, eod, 1))
                      THEN report(P1, "PP_CONDITIONAL_UNEXPECTED_TOKEN")
                      ELSE P1

parseElse(P, toks, eod) ==
    IF P.stack = <<>> THEN report(P, "PP_CONDITIONAL_ELSE_WITHOUT_IF")
    ELSE LET n == Len(P.stack)
             block == P.stack[n]
         IN  IF block.skipBlock THEN P
             ELSE IF block.foundElseGroup
             THEN report(P, "PP_CONDITIONAL_ELSE_AFTER_ELSE")
             ELSE LET P1 == [P EXCEPT !.stack[n] =
                                [block EXCEPT !.foundElseGroup = TRUE,
                                              !.skipGroup = block.foundValidGroup,
                                              !.foundValidGroup = TRUE]]
                  IN  IF ~isEOD(Tk(toks, eod, 1))
                      THEN report(P1, "PP_CONDITIONAL_UNEXPECTED_TOKEN")
                      ELSE P1

\* The end of parseElif: the block on top of the stack (the n-th) takes the
\* expression's result e.
parseElif_group(e, n) ==
    [e.P EXCEPT !.stack[n] =
        [@ EXCEPT !.skipGroup = (e.expression = 0),
                  !.foundValidGroup = (e.expression # 0)]]

\* parseElif without the test of foundValidGroup
parseElif_evaluating(P, toks, eod) ==
    IF P.stack = <<>> THEN report(P, "PP_CONDITIONAL_ELIF_WITHOUT_IF")
    ELSE LET n == Len(P.stack)
             block == P.stack[n]
         IN  IF block.skipBlock THEN P
             ELSE IF block.foundElseGroup
             THEN report(P, "PP_CONDITIONAL_ELIF_AFTER_ELSE")
             ELSE parseElif_group(parseExpressionIf(P, toks, eod), n)

parseElif(P, toks, eod) ==
    IF P.stack = <<>> THEN report(P, "PP_CONDITIONAL_ELIF_WITHOUT_IF")
    ELSE LET n == Len(P.stack)
             block == P.stack[n]
         IN  IF block.skipBlock THEN P
             ELSE IF block.foundElseGroup
             THEN report(P, "PP_CONDITIONAL_ELIF_AFTER_ELSE")
             ELSE IF block.foundValidGroup
             THEN [P EXCEPT !.stack[n] = [block EXCEPT !.skipGroup = TRUE]]
             ELSE parseElif_group(parseExpressionIf(P, toks, eod), n)

parseEndif(P, toks, eod) ==
    IF P.stack = <<>> THEN report(P, "PP_CONDITIONAL_ENDIF_WITHOUT_IF")
    ELSE LET P1 == [P EXCEPT !.stack = SubSeq(@, 1, Len(@) - 1)]
         IN  IF ~isEOD(Tk(toks, eod, 1))
             THEN report(P1, "PP_CONDITIONAL_UNEXPECTED_TOKEN")
             ELSE P1


\* The parameter loop of parseDefine (the do-while after the '(' at index i):
\* the index of the token the loop ends on, the names, and whether a
\* repeated name ended it.
\* a parameter loop that takes every name
findParameter_never(parameters, text) == FALSE

\* std::find(macro->parameters.begin(), macro->parameters.end(), token->text)
\*     != macro->parameters.end()
findParameter(parameters, text) == text \in Range(parameters)

RECURSIVE CollectParameters(_, _, _, _)
CollectParameters(toks, eod, i, parameters) ==
    LET t == Tk(toks, eod, i + 1)
    IN  IF t.type # "IDENTIFIER"
        THEN [dup |-> FALSE, i |-> i + 1, parameters |-> parameters]
        ELSE IF findParameter(parameters, t.text)
        THEN [dup |-> TRUE, i |-> i + 1, parameters |-> parameters]
        ELSE IF Tk(toks, eod, i + 2).type = ","
        THEN CollectParameters(toks, eod, i + 2, Append(parameters, t.text))
        ELSE [dup |-> FALSE, i |-> i + 2, parameters |-> Append(parameters, t.text)]

\* The replacement list: the tokens from index j to the end of the
\* directive, the first one's leading-space flag cleared.
Replacements(toks, j) ==
    LET body == SubSeq(toks, j, Len(toks))
    IN  IF body = <<>> THEN body
        ELSE [body EXCEPT ![1] = [@ EXCEPT !.sp = FALSE]]

\* The end of parseDefine with (*mMacroSet)[name] = macro in place of the
\* check and the insertion
RegisterMacro_overwriting(P, macro) ==
    [P EXCEPT !.macros =
        [n \in DOMAIN @ \cup {macro.name} |-> IF n = macro.name THEN macro ELSE @[n]]]

\* The redefinition check and the insertion that end parseDefine.
RegisterMacro(P, macro) ==
    IF macro.name \in DOMAIN P.macros /\ ~Macro_equals(macro, P.macros[macro.name])
    THEN report(P, "PP_MACRO_REDEFINED")
    ELSE IF macro.name \in DOMAIN P.macros
    THEN P    \* std::map::insert keeps the entry that is there
    ELSE [P EXCEPT !.macros = (macro.name :> macro) @@ @]

parseDefine(P, toks, eod) ==
    LET name == Tk(toks, eod, 1)
    IN  IF name.type # "IDENTIFIER" THEN report(P, "PP_UNEXPECTED_TOKEN")
        ELSE IF isMacroPredefined(name.text, P.macros)
        THEN report(P, "PP_MACRO_PREDEFINED_REDEFINED")
        ELSE IF isMacroNameReserved(name.text)
        THEN report(P, "PP_MACRO_NAME_RESERVED")
        ELSE
        LET P1 == IF hasDoubleUnderscores(name.text)
                  THEN report(P, "PP_WARNING_MACRO_NAME_RESERVED")
                  ELSE P
            t2 == Tk(toks, eod, 2)
        IN  IF t2.type = "(" /\ ~t2.sp
            THEN LET c == CollectParameters(toks, eod, 2, <<>>)
                 IN  IF c.dup THEN report(P1, "PP_MACRO_DUPLICATE_PARAMETER_NAMES")
                     ELSE IF Tk(toks, eod, c.i).type # ")"
                     THEN report(P1, "PP_UNEXPECTED_TOKEN")
                     ELSE RegisterMacro(P1, Macro("kTypeFunc", name.text, c.parameters,
                                                  Replacements(toks, c.i + 1), FALSE))
            ELSE RegisterMacro(P1, Macro("kTypeObj", name.text, <<>>,
                                         Replacements(toks, 2), FALSE))

\* mMacroSet->erase(iter)
EraseMacro(macroSet, name) == [n \in DOMAIN macroSet \ {name} |-> macroSet[n]]

\* parseUndef without the test of the predefined flag
parseUndef_predefined(P, toks, eod) ==
    LET name == Tk(toks, eod, 1)
        found == name.text \in DOMAIN P.macros
    IN  IF name.type # "IDENTIFIER" THEN report(P, "PP_UNEXPECTED_TOKEN")
        ELSE IF found /\ P.macros[name.text].expansionCount > 0
        THEN report(P, "PP_MACRO_UNDEFINED_WHILE_INVOKED")
        ELSE LET P1 == IF found
                       THEN [P EXCEPT !.macros = EraseMacro(@, name.text)]
                       ELSE P
             IN  IF ~isEOD(Tk(toks, eod, 2))
                 THEN report(P1, "PP_UNEXPECTED_TOKEN")
                 ELSE P1

\* parseUndef without the test of the expansion count
parseUndef_invoked(P, toks, eod) ==
    LET name == Tk(toks, eod, 1)
        found == name.text \in DOMAIN P.macros
    IN  IF name.type # "IDENTIFIER" THEN report(P, "PP_UNEXPECTED_TOKEN")
        ELSE IF found /\ P.macros[name.text].predefined
        THEN report(P, "PP_MACRO_PREDEFINED_UNDEFINED")
        ELSE LET P1 == IF found
                       THEN [P EXCEPT !.macros = EraseMacro(@, name.text)]
                       ELSE P
             IN  IF ~isEOD(Tk(toks, eod, 2))
                 THEN report(P1, "PP_UNEXPECTED_TOKEN")
                 ELSE P1

parseUndef(P, toks, eod) ==
    LET name == Tk(toks, eod, 1)
        found == name.text \in DOMAIN P.macros
    IN  IF name.type # "IDENTIFIER" THEN report(P, "PP_UNEXPECTED_TOKEN")
        ELSE IF found /\ P.macros[name.text].predefined
        THEN report(P, "PP_MACRO_PREDEFINED_UNDEFINED")
        ELSE IF found /\ P.macros[name.text].expansionCount > 0
        THEN report(P, "PP_MACRO_UNDEFINED_WHILE_INVOKED")
        ELSE LET P1 == IF found
                       THEN [P EXCEPT !.macros = EraseMacro(@, name.text)]
                       ELSE P
             IN  IF ~isEOD(Tk(toks, eod, 2))
                 THEN report(P1, "PP_UNEXPECTED_TOKEN")
                 ELSE P1

parseError(P, toks, eod) ==
    [P EXCEPT !.calls = @ \cup {[h |-> "handleError", arg |-> 0]}]

parsePragma(P, toks, eod) ==
    LET stdgl == Tk(toks, eod, 1).text = sSTDGL
        rest == IF stdgl THEN Tail(toks) ELSE toks
        state == Len(rest)
        want == <<"IDENTIFIER", "(", "IDENTIFIER", ")">>
        valid == /\ \A i \in 1..state : i <= 4 /\ rest[i].type = want[i]
                 /\ state \in {0, 1, 4}
    IN  IF ~valid THEN report(P, "PP_UNRECOGNIZED_PRAGMA")
        ELSE IF state > 0
        THEN [P EXCEPT !.calls = @ \cup {[h |-> "handlePragma", arg |-> 0]}]
        ELSE P

\* The end of parseExtension: bad holds the indices of the tokens the
\* loop rejects, state is the count of the directive's tokens.
parseExtension_end(P, state, bad) ==
    LET first == CHOOSE i \in bad : \A j \in bad : i <= j
        P1 == reportIf(P, bad # {},
                       IF bad = {} THEN "NONE"
                       ELSE CASE first = 1 -> "PP_INVALID_EXTENSION_NAME"
                              [] first = 2 -> "PP_UNEXPECTED_TOKEN"
                              [] first = 3 -> "PP_INVALID_EXTENSION_BEHAVIOR"
                              [] OTHER -> "PP_UNEXPECTED_TOKEN")
        P2 == reportIf(P1, bad = {} /\ state # 3, "PP_INVALID_EXTENSION_DIRECTIVE")
        P3 == reportIf(P2, bad = {} /\ state = 3 /\ P.seen,
                       IF P.version >= 300
                       THEN "PP_NON_PP_TOKEN_BEFORE_EXTENSION_ESSL3"
                       ELSE "PP_NON_PP_TOKEN_BEFORE_EXTENSION_ESSL1")
    IN  IF bad = {} /\ state = 3 /\ ~(P.seen /\ P.version >= 300)
        THEN [P3 EXCEPT !.calls = @ \cup {[h |-> "handleExtension", arg |-> 0]}]
        ELSE P3

parseExtension(P, toks, eod) ==
    parseExtension_end(P, Len(toks),
        {i \in 1..Len(toks) :
            i > 3 \/ toks[i].type # <<"IDENTIFIER", ":", "IDENTIFIER">>[i]})

\* The token loop of parseVersion from index i in the given state:
\* [valid, version, state, diags].
RECURSIVE VersionLoop(_, _, _, _, _)
VersionLoop(toks, eod, i, state, version) ==
    LET t == Tk(toks, eod, i)
    IN  IF isEOD(t) THEN [valid |-> TRUE, version |-> version, state |-> state, diags |-> {}]
        ELSE IF state = "VERSION_NUMBER"
        THEN IF t.type # "CONST_INT"
             THEN [valid |-> FALSE, version |-> version, state |-> state,
                   diags |-> {"PP_INVALID_VERSION_NUMBER"}]
             ELSE IF ~iValue(t.text).ok
             THEN [valid |-> FALSE, version |-> version, state |-> state,
                   diags |-> {"PP_INTEGER_OVERFLOW"}]
             ELSE VersionLoop(toks, eod, i + 1,
                              IF iValue(t.text).v < 300 THEN "VERSION_ENDLINE"
                                                        ELSE "VERSION_PROFILE",
                              iValue(t.text).v)
        ELSE IF state = "VERSION_PROFILE"
        THEN IF t.type # "IDENTIFIER" \/ t.text # ses
             THEN [valid |-> FALSE, version |-> version, state |-> "VERSION_ENDLINE",
                   diags |-> {"PP_INVALID_VERSION_DIRECTIVE"}]
             ELSE VersionLoop(toks, eod, i + 1, "VERSION_ENDLINE", version)
        ELSE [valid |-> FALSE, version |-> version, state |-> state,
              diags |-> {"PP_UNEXPECTED_TOKEN"}]

\* TDirectiveHandler::handleVersion with every version number supported
TDirectiveHandler_handleVersion_accepting(P, version) ==
    [P EXCEPT !.calls = @ \cup {[h |-> "handleVersion", arg |-> version]}]

\* TDirectiveHandler::handleVersion: the versions 100 and 300 are supported,
\* any other gets the diagnostic that the version number is not supported.
TDirectiveHandler_handleVersion(P, version) ==
    reportIf([P EXCEPT !.calls = @ \cup {[h |-> "handleVersion", arg |-> version]}],
             version \notin {100, 300}, "VERSION_NOT_SUPPORTED")

\* The end of parseVersion without the test of the directive's line
parseVersion_end_anyLine(P, r, loc) ==
    IF r.valid /\ r.state # "VERSION_ENDLINE"
    THEN report([P EXCEPT !.diags = @ \cup r.diags], "PP_INVALID_VERSION_DIRECTIVE")
    ELSE IF r.valid
    THEN [TDirectiveHandler_handleVersion(P, r.version)
             EXCEPT !.diags = @ \cup r.diags,
                    !.version = r.version,
                    !.macros = PredefineMacro(@, s__VERSION__, r.version)]
    ELSE [P EXCEPT !.diags = @ \cup r.diags]

\* The end of parseVersion, r being what the token loop left; loc is the
\* line of the directive's tokens.
parseVersion_end(P, r, loc) ==
    IF r.valid /\ r.state # "VERSION_ENDLINE"
    THEN report([P EXCEPT !.diags = @ \cup r.diags], "PP_INVALID_VERSION_DIRECTIVE")
    ELSE IF r.valid /\ r.version >= 300 /\ loc > 1
    THEN report([P EXCEPT !.diags = @ \cup r.diags], "PP_VERSION_NOT_FIRST_LINE_ESSL3")
    ELSE IF r.valid
    THEN [TDirectiveHandler_handleVersion(P, r.version)
             EXCEPT !.diags = @ \cup r.diags,
                    !.version = r.version,
                    !.macros = PredefineMacro(@, s__VERSION__, r.version)]
    ELSE [P EXCEPT !.diags = @ \cup r.diags]

\* parseVersion without the test of mPastFirstStatement
parseVersion_anywhere(P, toks, eod, loc) ==
    parseVersion_end(P, VersionLoop(toks, eod, 1, "VERSION_NUMBER", 0), loc)

parseVersion(P, toks, eod, loc) ==
    IF P.past THEN report(P, "PP_VERSION_NOT_FIRST_STATEMENT")
    ELSE parseVersion_end(P, VersionLoop(toks, eod, 1, "VERSION_NUMBER", 0), loc)

\* The end of parseLine: l and f are what ExpressionParser::parse returned
\* for the line number and for the file number (parsed when
\* parsedFileNumber), ex the expanded tokens of the directive.
parseLine_end(P, ex, eod, l, parsedFileNumber, f) ==
    LET P1 == [P EXCEPT !.diags = @ \cup l.diags \cup f.diags, !.evald = TRUE]
    IN  IF ~(l.valid /\ f.valid) THEN P1
        ELSE IF ~isEOD(Tk(ex, eod, f.i)) THEN report(P1, "PP_UNEXPECTED_TOKEN")
        ELSE [P1 EXCEPT !.line = l.v,
                        !.file = IF parsedFileNumber THEN f.v ELSE @]

\* if(!isEOD(token) && valid) { ... parse the file number ... }
parseLine_file(P, ex, eod, l, parsedFileNumber) ==
    parseLine_end(P, ex, eod, l, parsedFileNumber,
        IF parsedFileNumber
        THEN ExpressionParser_parse(ex, eod, l.i, "PP_INVALID_FILE_NUMBER", TRUE)
        ELSE [l EXCEPT !.diags = {}])

\* The line number l has been parsed; a file number follows unless the
\* directive ends or l is not valid.
parseLine_number(P, ex, eod, l) ==
    parseLine_file(P, ex, eod, l, ~isEOD(Tk(ex, eod, l.i)) /\ l.valid)

\* parseLine over the expanded tokens ex of the directive
parseLine_expanded(P, ex, eod) ==
    IF isEOD(Tk(ex, eod, 1)) THEN report(P, "PP_INVALID_LINE_DIRECTIVE")
    ELSE parseLine_number(P, ex, eod,
             ExpressionParser_parse(ex, eod, 1, "PP_INVALID_LINE_NUMBER", TRUE))

parseLine(P, toks, eod) ==
    parseLine_expanded(P, MacroExpander_expand(toks, P.macros, MaxMacroExpansionDepth), eod)


\* parseDirective without the test for an excluded block or group
parseDirective_parsingAll(P, toks, eod, loc) ==
    LET token == Tk(toks, eod, 1)
        directive == getDirective(token)
        rest == Tail(toks)
    IN  IF isEOD(token) THEN P
        ELSE
        reportIf(CASE directive = "DIRECTIVE_NONE" -> report(P, "PP_DIRECTIVE_INVALID_NAME")
                   [] directive = "DIRECTIVE_DEFINE" -> parseDefine(P, rest, eod)
                   [] directive = "DIRECTIVE_UNDEF" -> parseUndef(P, rest, eod)
                   [] directive \in {"DIRECTIVE_IF", "DIRECTIVE_IFDEF", "DIRECTIVE_IFNDEF"} ->
                          parseConditionalIf(P, token, rest, eod)
                   [] directive = "DIRECTIVE_ELSE" -> parseElse(P, rest, eod)
                   [] directive = "DIRECTIVE_ELIF" -> parseElif(P, rest, eod)
                   [] directive = "DIRECTIVE_ENDIF" -> parseEndif(P, rest, eod)
                   [] directive = "DIRECTIVE_ERROR" -> parseError(P, rest, eod)
                   [] directive = "DIRECTIVE_PRAGMA" -> parsePragma(P, rest, eod)
                   [] directive = "DIRECTIVE_EXTENSION" -> parseExtension(P, rest, eod)
                   [] directive = "DIRECTIVE_VERSION" -> parseVersion(P, rest, eod, loc)
                   [] directive = "DIRECTIVE_LINE" -> parseLine(P, rest, eod)
                 , eod = "LAST", "PP_EOF_IN_DIRECTIVE")

\* toks is the line after the '#'; loc is its line number
parseDirective(P, toks, eod, loc) ==
    LET token == Tk(toks, eod, 1)
        directive == getDirective(token)
        rest == Tail(toks)
    IN  IF isEOD(token) THEN P
        ELSE IF skipping(P) /\ ~isConditionalDirective(directive) THEN P
        ELSE
        reportIf(CASE directive = "DIRECTIVE_NONE" -> report(P, "PP_DIRECTIVE_INVALID_NAME")
                   [] directive = "DIRECTIVE_DEFINE" -> parseDefine(P, rest, eod)
                   [] directive = "DIRECTIVE_UNDEF" -> parseUndef(P, rest, eod)
                   [] directive \in {"DIRECTIVE_IF", "DIRECTIVE_IFDEF", "DIRECTIVE_IFNDEF"} ->
                          parseConditionalIf(P, token, rest, eod)
                   [] directive = "DIRECTIVE_ELSE" -> parseElse(P, rest, eod)
                   [] directive = "DIRECTIVE_ELIF" -> parseElif(P, rest, eod)
                   [] directive = "DIRECTIVE_ENDIF" -> parseEndif(P, rest, eod)
                   [] directive = "DIRECTIVE_ERROR" -> parseError(P, rest, eod)
                   [] directive = "DIRECTIVE_PRAGMA" -> parsePragma(P, rest, eod)
                   [] directive = "DIRECTIVE_EXTENSION" -> parseExtension(P, rest, eod)
                   [] directive = "DIRECTIVE_VERSION" -> parseVersion(P, rest, eod, loc)
                   [] directive = "DIRECTIVE_LINE" -> parseLine(P, rest, eod)
                 , eod = "LAST", "PP_EOF_IN_DIRECTIVE")

(***************************************************************************)
(* What the tokenizer hands to one iteration of the loop of                *)
(* DirectiveParser::lex: a '#' with the rest of its line (toks, ended by   *)
(* eod), or one other token (tok).                                         *)
(***************************************************************************)
HashItem(toks, eod) == [toks |-> toks, eod |-> eod, hash |-> TRUE, tok |-> NoToken]
TokenItem(tok) == [toks |-> <<>>, eod |-> tok.type, hash |-> FALSE, tok |-> tok]
NoItem == [toks |-> <<>>, eod |-> "NONE", hash |-> FALSE, tok |-> NoToken]

\* Tokenizer::lex counts a line for each newline it delivers
Tokenizer_advance(P, eod) == IF eod = "NEWLINE" THEN [P EXCEPT !.line = @ + 1] ELSE P

\* Whether the loop of lex goes round again after delivering token
lexContinues(P, token) == skipping(P) \/ token.type = "NEWLINE"

\* The end of an iteration that gives up at the first diagnostic
lexLoopEnd_aborting(P1, token) ==
    IF token.type = "LAST" \/ P1.diags # {}
    THEN [P |-> [P1 EXCEPT !.past = TRUE], token |-> Tok("LAST", <<>>, FALSE)]
    ELSE IF lexContinues(P1, token)
    THEN [P |-> P1, token |-> NoToken]
    ELSE [P |-> [P1 EXCEPT !.past = TRUE], token |-> token]

\* report(PP_CONDITIONAL_UNTERMINATED, block.location, block.type) for
\* mConditionalStack.back(), if there is one
lex_unterminated(P1) ==
    IF P1.stack = <<>> THEN P1
    ELSE [report(P1, "PP_CONDITIONAL_UNTERMINATED")
          EXCEPT !.unterminated = <<P1.stack[Len(P1.stack)]>>]

\* The end of an iteration that goes round again at Token::LAST while it
\* is skipping
lexLoopEnd_looping(P1, token) ==
    IF token.type = "LAST" /\ ~skipping(P1)
    THEN [P |-> [lex_unterminated(P1) EXCEPT !.past = TRUE],
          token |-> token]
    ELSE IF lexContinues(P1, token)
    THEN [P |-> P1, token |-> NoToken]
    ELSE [P |-> [P1 EXCEPT !.past = TRUE], token |-> token]

\* The end of an iteration of the loop of DirectiveParser::lex, P1 being
\* the state after the token was handled: the test for Token::LAST, the
\* loop's condition and, when the loop ends, the statement after it.
\* [P, token]: token is what lex returns, NoToken when the loop goes round
\* again.
lexLoopEnd(P1, token) ==
    IF token.type = "LAST"
    THEN [P |-> [lex_unterminated(P1) EXCEPT !.past = TRUE],
          token |-> token]
    ELSE IF lexContinues(P1, token)
    THEN [P |-> P1, token |-> NoToken]
    ELSE [P |-> [P1 EXCEPT !.past = TRUE], token |-> token]

\* One iteration of the do-while loop of DirectiveParser::lex
DirectiveParser_lex(P0, item) ==
    LET P == Tokenizer_advance([P0 EXCEPT !.diags = {}, !.calls = {}, !.evald = FALSE,
                                          !.unterminated = <<>>],
                               item.eod)
        token == IF item.hash THEN Tok(item.eod, <<>>, FALSE) ELSE item.tok
    IN  lexLoopEnd(IF item.hash
                   THEN [parseDirective(P, item.toks, item.eod, P0.line)
                         EXCEPT !.past = TRUE]
                   ELSE IF ~isEOD(token) THEN [P EXCEPT !.seen = TRUE]
                   ELSE P,
                   token)


(***************************************************************************)
(* Reactor.  The builder's state as a record R:                            *)
(*   unmat    *Variable::unmaterializedVariables                           *)
(*   rvalue, address   the fields of each Variable (0 is nullptr; the      *)
(*            address of variable v's stack slot is v)                     *)
(*   slot     what the store instructions emitted so far leave in each     *)
(*            variable's stack slot (0: nothing stored)                    *)
(*   emitted  the instructions emitted during the current step            *)
(*   insertBlock   the builder's insert block.  A block is named by the    *)
(*            role it was created for and the nesting depth of the         *)
(*            construct that created it.                                   *)
(***************************************************************************)
emit(R, op, v) == [R EXCEPT !.emitted = Append(@, [op |-> op, var |-> v])]

\* Nucleus::createStore to the slot of variable v
Nucleus_createStore(R, value, v) == [emit(R, "store", v) EXCEPT !.slot[v] = value]

Variable_storeValue(R, v, value) ==
    IF R.address[v] # 0 THEN Nucleus_createStore(R, value, v)
    ELSE [R EXCEPT !.rvalue[v] = value]

\* Variable::allocate: Nucleus::allocateStackVariable puts an alloca into
\* the entry block
Variable_allocate(R, v) == emit(R, "alloca", v)

Variable_materialize(R, v) ==
    IF R.address[v] = 0
    THEN LET R1 == [Variable_allocate(R, v) EXCEPT !.address[v] = v]
         IN  IF R1.rvalue[v] # 0
             THEN [Variable_storeValue(R1, v, R1.rvalue[v]) EXCEPT !.rvalue[v] = 0]
             ELSE R1
    ELSE R

Variable_loadValue(R, v) ==
    IF R.rvalue[v] # 0 THEN R
    ELSE emit(IF R.address[v] = 0 THEN Variable_materialize(R, v) ELSE R, "load", v)

Variable_getBaseAddress(R, v) == Variable_materialize(R, v)

\* the loop of materializeAll over the set (in the set's order, which is
\* taken to be that of the variables' numbers)
RECURSIVE MaterializeEach(_, _)
MaterializeEach(R, todo) ==
    IF todo = {} THEN R
    ELSE LET v == CHOOSE x \in todo : \A y \in todo : x <= y
         IN  MaterializeEach(Variable_materialize(R, v), todo \ {v})

Variable_materializeAll(R) == [MaterializeEach(R, R.unmat) EXCEPT !.unmat = {}]

Variable_killUnmaterialized(R) == [R EXCEPT !.unmat = {}]

\* Nucleus::createBasicBlock: a new, empty block
Nucleus_createBasicBlock(role, depth) == <<role, depth>>
NoBlock == <<"none", 0>>

\* Nucleus::setInsertBlock without the call of materializeAll
Nucleus_setInsertBlock_only(R, basicBlock) == [R EXCEPT !.insertBlock = basicBlock]

Nucleus_setInsertBlock(R, basicBlock) ==
    [Variable_materializeAll(R) EXCEPT !.insertBlock = basicBlock]

Nucleus_createRetVoid(R) == emit(Variable_killUnmaterialized(R), "ret", NoBlock)

Nucleus_createRet(R) == emit(Variable_killUnmaterialized(R), "ret", NoBlock)

Nucleus_createBr(R, dest) == emit(Variable_materializeAll(R), "br", dest)

Nucleus_createCondBr(R, ifTrue, ifFalse) == emit(Variable_materializeAll(R), "condbr", ifTrue)

Nucleus_createSwitch(R, defaultBranch) == emit(R, "switch", defaultBranch)

Nucleus_createUnreachable(R) == emit(R, "unreachable", NoBlock)

\* Return() and Return(ret)
Return(R, void) ==
    LET R1 == IF void THEN Nucleus_createRetVoid(R) ELSE Nucleus_createRet(R)
    IN  Nucleus_setInsertBlock(R1, Nucleus_createBasicBlock("return", 0))

\* ForData::setup when the insert block is not endBB; D is the ForData,
\* d the nesting depth of the loop
ForData_setup(R, D, d) ==
    LET testBB == Nucleus_createBasicBlock("test", d)
    IN  [R |-> Nucleus_setInsertBlock(Nucleus_createBr(R, testBB), testBB),
         D |-> [D EXCEPT !.testBB = testBB, !.phase = "test"]]

ForData_test(R, D, d) ==
    LET bodyBB == Nucleus_createBasicBlock("body", d)
        endBB == Nucleus_createBasicBlock("end", d)
    IN  [R |-> Nucleus_setInsertBlock(Nucleus_createCondBr(R, bodyBB, endBB), bodyBB),
         D |-> [D EXCEPT !.endBB = endBB, !.phase = "body"]]

ForData_end(R, D) ==
    Nucleus_setInsertBlock(Nucleus_createBr(R, D.testBB), D.endBB)

\* the constructor of IfElseData
IfElseData_ctor(R, d) ==
    LET beginBB == R.insertBlock
        trueBB == Nucleus_createBasicBlock("true", d)
        endBB == Nucleus_createBasicBlock("end", d)
    IN  [R |-> Nucleus_setInsertBlock(R, trueBB),
         D |-> [testBB |-> NoBlock, phase |-> "if", endBB |-> endBB, beginBB |-> beginBB,
                trueBB |-> trueBB, kind |-> "If", falseBB |-> NoBlock]]

IfElseData_elseClause(R, D, d) ==
    LET R1 == Nucleus_createBr(R, D.endBB)
        falseBB == Nucleus_createBasicBlock("false", d)
    IN  [R |-> Nucleus_setInsertBlock(R1, falseBB),
         D |-> [D EXCEPT !.falseBB = falseBB, !.phase = "else"]]

IfElseData_dtor(R, D) ==
    LET R1 == Nucleus_setInsertBlock(Nucleus_createBr(R, D.endBB), D.beginBB)
        R2 == Nucleus_createCondBr(R1, D.trueBB,
                                   IF D.falseBB # NoBlock THEN D.falseBB ELSE D.endBB)
    IN  Nucleus_setInsertBlock(R2, D.endBB)

\* the macros Do and Until
Do_begin(R, d) ==
    LET body == Nucleus_createBasicBlock("body", d)
    IN  [R |-> Nucleus_setInsertBlock(Nucleus_createBr(R, body), body),
         D |-> [testBB |-> NoBlock, phase |-> "body", endBB |-> NoBlock,
                beginBB |-> NoBlock, trueBB |-> body, kind |-> "Do",
                falseBB |-> NoBlock]]

Until(R, D, d) ==
    LET end == Nucleus_createBasicBlock("end", d)
    IN  Nucleus_setInsertBlock(Nucleus_createCondBr(R, end, D.trueBB), end)

(***************************************************************************)
(* ValidateLimitations.  The nodes of the tree it traverses:               *)
(*   a symbol    [id, basicType, qualifier]                                *)
(*   an operand  [form, symbol, symbols, scalarInt]: form is "symbol",     *)
(*               "constant" (a TIntermConstantUnion) or "other"; symbols   *)
(*               are the symbol nodes a traversal of the operand meets     *)
(*   a loop      [node, loopType, init, cond, expr, body]                  *)
(* and the validator's state as a record V:                                *)
(*   loops     mLoopStack, a TLoopInfo [id, unroll] each: index.id, and    *)
(*             the unroll flag of the loop node that info.loop points to   *)
(*   errors    mNumErrors                                                  *)
(*   shader    mShaderType                                                 *)
(*   reported  the reasons given to error() during the current step        *)
(***************************************************************************)
GL_VERTEX_SHADER == 35633
GL_FRAGMENT_SHADER == GL_VERTEX_SHADER - 1

IsInteger(type) == type = "EbtInt" \/ type = "EbtUInt"

IsLoopIndex(symbol, loops) == \E k \in DOMAIN loops : loops[k].id = symbol.id

\* sets the unroll flag of the first loop on the stack that has the index
MarkLoopForUnroll(symbol, loops) ==
    LET k == CHOOSE j \in DOMAIN loops :
                 /\ loops[j].id = symbol.id
                 /\ \A m \in 1..(j - 1) : loops[m].id # symbol.id
    IN  [loops EXCEPT ![k].unroll = TRUE]

\* ValidateLoopIndexExpr::visitSymbol, u being [float, int, loops]: what
\* usesFloatLoopIndex() and usesIntLoopIndex() return, and the loop stack.
\* No function of ValidateLimitations constructs a ValidateLoopIndexExpr.
ValidateLoopIndexExpr_visitSymbol(u, symbol) ==
    IF ~IsLoopIndex(symbol, u.loops) THEN u
    ELSE IF symbol.basicType = "EbtFloat" THEN [u EXCEPT !.float = TRUE]
    ELSE [u EXCEPT !.int = TRUE, !.loops = MarkLoopForUnroll(symbol, @)]

\* ValidateLimitations::error
error(V, reason) == [V EXCEPT !.errors = @ + 1, !.reported = @ \cup {reason}]

\* error(...); return false;  and  return true;  of the functions that
\* validate a part of a loop's header; id is what info->index.id holds.
Refused(V, reason, id) == [V |-> error(V, reason), id |-> id, accepted |-> FALSE]
Accepted(V, id) == [V |-> V, id |-> id, accepted |-> TRUE]

withinLoopBody(V) == V.loops # <<>>
isConstExpr(operand) == operand.form = "constant"

validateLoopType(V, node) ==
    IF node.loopType = "ELoopFor" THEN Accepted(V, 0)
    ELSE Refused(V, "This type of loop is not allowed", 0)

validateForLoopInit(V, node) ==
    IF ~node.init.present THEN Refused(V, "Missing init declaration", 0)
    ELSE IF ~node.init.declaration THEN Refused(V, "Invalid init declaration", 0)
    ELSE IF node.init.size # 1 THEN Refused(V, "Invalid init declaration", 0)
    ELSE IF ~node.init.initialize THEN Refused(V, "Invalid init declaration", 0)
    ELSE IF node.init.left.form # "symbol" THEN Refused(V, "Invalid init declaration", 0)
    ELSE IF /\ ~IsInteger(node.init.left.symbol.basicType)
            /\ node.init.left.symbol.basicType # "EbtFloat"
    THEN Refused(V, "Invalid type for loop index", 0)
    ELSE IF ~isConstExpr(node.init.right)
    THEN Refused(V, "Loop index cannot be initialized with non-constant expression", 0)
    ELSE Accepted(V, node.init.left.symbol.id)

RelationalOperators ==
    {"EOpEqual", "EOpNotEqual", "EOpLessThan", "EOpGreaterThan",
     "EOpLessThanEqual", "EOpGreaterThanEqual"}

\* validateForLoopCond without its test of the right operand
validateForLoopCond_anyOperand(V, node, id) == Accepted(V, id)

\* the end of validateForLoopCond, after the switch on the operator
validateForLoopCond_constant(V, node, id) ==
    IF ~isConstExpr(node.cond.right)
    THEN Refused(V, "Loop index cannot be compared with non-constant expression", id)
    ELSE Accepted(V, id)

validateForLoopCond(V, node, id) ==
    IF ~node.cond.present THEN Refused(V, "Missing condition", id)
    ELSE IF ~node.cond.binary THEN Refused(V, "Invalid condition", id)
    ELSE IF node.cond.left.form # "symbol" THEN Refused(V, "Invalid condition", id)
    ELSE IF node.cond.left.symbol.id # id THEN Refused(V, "Expected loop index", id)
    ELSE validateForLoopCond_constant(
             IF node.cond.op \in RelationalOperators THEN V
             ELSE error(V, "Invalid relational operator"),
             node, id)

\* expr.operand is the operand of a unary node or the left side of a
\* binary node, which is where the function looks for the symbol
validateForLoopExpr(V, node, id) ==
    IF ~node.expr.present THEN Refused(V, "Missing expression", id)
    ELSE IF ~(node.expr.unary \/ node.expr.binary) \/ node.expr.operand.form # "symbol"
    THEN Refused(V, "Invalid expression", id)
    ELSE IF node.expr.operand.symbol.id # id THEN Refused(V, "Expected loop index", id)
    ELSE IF node.expr.op \notin {"EOpPostIncrement", "EOpPostDecrement", "EOpPreIncrement",
                                 "EOpPreDecrement", "EOpAddAssign", "EOpSubAssign"}
    THEN Refused(V, "Invalid operator", id)
    ELSE IF node.expr.binary /\ ~isConstExpr(node.expr.right)
    THEN Refused(V, "Loop index cannot be modified by non-constant expression", id)
    ELSE Accepted(V, id)

\* the rest of validateForLoopHeader, r being what the part before returned
validateForLoopHeader_cond(r, node) ==
    IF ~r.accepted THEN r ELSE validateForLoopCond(r.V, node, r.id)
validateForLoopHeader_expr(r, node) ==
    IF ~r.accepted THEN r ELSE validateForLoopExpr(r.V, node, r.id)

validateForLoopHeader(V, node) ==
    validateForLoopHeader_expr(
        validateForLoopHeader_cond(validateForLoopInit(V, node), node), node)

\* mLoopStack.push_back(info), r being what validateForLoopHeader returned
visitLoop_push(r, node) ==
    IF r.accepted /\ node.body
    THEN [r EXCEPT !.V.loops = Append(@, [id |-> r.id, unroll |-> FALSE])]
    ELSE r

\* visitLoop up to the traversal of the body: [V, accepted, id]
visitLoop(V, node) ==
    IF ~validateLoopType(V, node).accepted THEN validateLoopType(V, node)
    ELSE visitLoop_push(validateForLoopHeader(V, node), node)

\* visitLoop after the traversal of the body: mLoopStack.pop_back()
visitLoop_pop(V) == [V EXCEPT !.loops = SubSeq(@, 1, Len(@) - 1)]

\* TIntermOperator::modifiesState
modifiesState(op) ==
    op \in {"EOpPostIncrement", "EOpPostDecrement", "EOpPreIncrement", "EOpPreDecrement",
            "EOpAssign", "EOpAddAssign", "EOpSubAssign", "EOpMulAssign"}

\* validateOperation that looks at the index of the innermost loop only
validateOperation_innermost(V, node, operand) ==
    IF ~withinLoopBody(V) \/ ~modifiesState(node.op) THEN V
    ELSE IF operand.form = "symbol" /\ operand.symbol.id = V.loops[Len(V.loops)].id
    THEN error(V, "Loop index cannot be statically assigned to within the body of the loop")
    ELSE V

validateOperation(V, node, operand) ==
    IF ~withinLoopBody(V) \/ ~modifiesState(node.op) THEN V
    ELSE IF operand.form = "symbol" /\ IsLoopIndex(operand.symbol, V.loops)
    THEN error(V, "Loop index cannot be statically assigned to within the body of the loop")
    ELSE V

\* ValidateConstIndexExpr over the index expression
isConstIndexExpr(V, operand) ==
    \A symbol \in operand.symbols :
        symbol.qualifier = "EvqConstExpr" \/ IsLoopIndex(symbol, V.loops)

\* the second test with a skip for the uniforms of every shader type
validateIndexing_anyShader(V, node) ==
    IF /\ node.left.symbol.qualifier # "EvqUniform"
       /\ ~isConstIndexExpr(V, node.right)
    THEN error(V, "Index expression must be constant")
    ELSE V

\* the second test of validateIndexing, V being the state after the first
validateIndexing_constant(V, node) ==
    IF /\ ~(V.shader = GL_VERTEX_SHADER /\ node.left.symbol.qualifier = "EvqUniform")
       /\ ~isConstIndexExpr(V, node.right)
    THEN error(V, "Index expression must be constant")
    ELSE V

validateIndexing(V, node) ==
    validateIndexing_constant(
        IF ~node.right.scalarInt
        THEN error(V, "Index expression must have integral type")
        ELSE V,
        node)

visitBinary(V, node) ==
    IF node.op \in {"EOpIndexDirect", "EOpIndexIndirect"}
    THEN validateIndexing(validateOperation(V, node, node.left), node)
    ELSE validateOperation(V, node, node.left)

visitUnary(V, node) == validateOperation(V, node, node.operand)

\* node.params are the arguments, node.function the qualifiers of the
\* parameters of the function that the symbol table holds for the name
\* an error for each of the arguments pIndex that meets an out or inout
\* parameter
\* the loop over pIndex with a test for EvqOut alone
validateFunctionCall_outOnly(V, node, pIndex) ==
    [V EXCEPT
        !.errors = @ + Cardinality({k \in pIndex : node.function[k] = "EvqOut"}),
        !.reported = @ \cup
            {"Loop index cannot be used as argument to a function out or inout parameter" :
                k \in {j \in pIndex : node.function[j] = "EvqOut"}}]

validateFunctionCall_params(V, node, pIndex) ==
    [V EXCEPT
        !.errors = @ + Cardinality({k \in pIndex : node.function[k] \in {"EvqOut", "EvqInOut"}}),
        !.reported = @ \cup
            {"Loop index cannot be used as argument to a function out or inout parameter" :
                k \in {j \in pIndex : node.function[j] \in {"EvqOut", "EvqInOut"}}}]

validateFunctionCall(V, node) ==
    IF ~withinLoopBody(V) THEN V
    ELSE validateFunctionCall_params(V, node,
             {k \in DOMAIN node.params :
                 /\ node.params[k].form = "symbol"
                 /\ IsLoopIndex(node.params[k].symbol, V.loops)})

visitAggregate(V, node) ==
    IF node.op = "EOpFunctionCall" THEN validateFunctionCall(V, node) ELSE V


(***************************************************************************)
(* TPoolAllocator, in the build without DISABLE_DEBUG's guard blocks.  The *)
(* allocator's state as a record A:                                        *)
(*   disabled  DISABLE_POOL_ALLOC is defined: every allocation is a malloc *)
(*   offset    currentPageOffset                                           *)
(*   free      freeList, the addresses of its pages, the head first        *)
(*   inUse     inUseList, a tHeader [address, pageCount, allocs] each, the *)
(*             head first; allocs are the allocations whose bytes the page *)
(*             holds, each named by the number of its call                 *)
(*   stack     mStack, a tAllocState [offset, page, allocs] each: page is  *)
(*             the address of a page, 0 for a null pointer; with           *)
(*             DISABLE_POOL_ALLOC an entry is the vector of the blocks     *)
(*             malloc returned, allocs, and offset and page are 0          *)
(*   calls     numCalls; with DISABLE_POOL_ALLOC it only numbers the calls *)
(* Sizes are in bytes and an address is the number of a block of the heap. *)
(***************************************************************************)
guardBlockSize == 0
headerSize == 0
alignmentMask == Alignment - 1
pageSize == PageWords * Alignment
headerSkip == Alignment

\* TAllocation::allocationSize
allocationSize(size) == size + 2 * guardBlockSize + headerSize

\* (x + alignmentMask) & ~alignmentMask
AlignUp(x) == ((x + alignmentMask) \div Alignment) * Alignment

tHeader(address, pageCount, allocs) ==
    [address |-> address, pageCount |-> pageCount, allocs |-> allocs]
tAllocState(offset, page) == [allocs |-> {}, offset |-> offset, page |-> page]

\* the address a tHeader* holds
PageAddress(list) == IF list = <<>> THEN 0 ELSE list[1].address

\* TPoolAllocator::push
TPoolAllocator_push(A) ==
    IF A.disabled THEN [A EXCEPT !.stack = Append(@, tAllocState(0, 0))]
    ELSE [A EXCEPT !.stack = Append(@, tAllocState(A.offset, PageAddress(A.inUse))),
                   !.offset = pageSize]

\* the loop of pop: the pages in front of page leave inUseList, a single
\* page for freeList, a multi-page block for the heap
RECURSIVE pop_pages(_, _)
pop_pages(A, page) ==
    IF A.inUse = <<>> \/ A.inUse[1].address = page THEN A
    ELSE pop_pages([A EXCEPT !.inUse = Tail(@),
                             !.free = IF A.inUse[1].pageCount > 1 THEN @
                                      ELSE <<A.inUse[1].address>> \o @],
                   page)

\* pop that leaves currentPageOffset as it is
TPoolAllocator_pop_keepingOffset(A) ==
    IF Len(A.stack) < 1 THEN A
    ELSE [pop_pages(A, A.stack[Len(A.stack)].page)
             EXCEPT !.stack = SubSeq(@, 1, Len(@) - 1)]

\* TPoolAllocator::pop
TPoolAllocator_pop(A) ==
    IF Len(A.stack) < 1 THEN A
    ELSE IF A.disabled THEN [A EXCEPT !.stack = SubSeq(@, 1, Len(@) - 1)]
    ELSE [pop_pages(A, A.stack[Len(A.stack)].page)
             EXCEPT !.offset = A.stack[Len(A.stack)].offset,
                    !.stack = SubSeq(@, 1, Len(@) - 1)]

\* TPoolAllocator::popAll
RECURSIVE TPoolAllocator_popAll(_)
TPoolAllocator_popAll(A) ==
    IF Len(A.stack) > 0 THEN TPoolAllocator_popAll(TPoolAllocator_pop(A)) ELSE A

\* allocate from the page at the head of inUseList; an allocation of no
\* bytes takes none of the page
allocate_fromPage(A, numBytes) ==
    [A EXCEPT !.offset = AlignUp(@ + allocationSize(numBytes)),
              !.inUse = IF allocationSize(numBytes) = 0 \/ A.inUse = <<>> THEN @
                        ELSE [@ EXCEPT ![1].allocs = @ \cup {A.calls}]]

\* a multi-page allocation; memory is what operator new returned, 0 for none
allocate_multiPage(A, numBytes, memory) ==
    IF memory = 0 THEN A
    ELSE [A EXCEPT
             !.offset = pageSize,
             !.inUse = <<tHeader(memory,
                                 (allocationSize(numBytes) + headerSkip + pageSize - 1)
                                     \div pageSize,
                                 {A.calls})>> \o @]

\* a simple page to allocate from, off freeList or from operator new
allocate_newPage(A, numBytes, memory) ==
    IF A.free # <<>>
    THEN [A EXCEPT !.offset = AlignUp(headerSkip + allocationSize(numBytes)),
                   !.free = Tail(@),
                   !.inUse = <<tHeader(Head(A.free), 1, {A.calls})>> \o @]
    ELSE IF memory = 0 THEN A
    ELSE [A EXCEPT !.offset = AlignUp(headerSkip + allocationSize(numBytes)),
                   !.inUse = <<tHeader(memory, 1, {A.calls})>> \o @]

\* allocate of the build with DISABLE_POOL_ALLOC: mStack.back().push_back(alloc)
allocate_malloc(A) ==
    [A EXCEPT !.stack[Len(A.stack)].allocs = @ \cup {A.calls}]

\* TPoolAllocator::allocate, A.calls being numCalls after ++numCalls
TPoolAllocator_allocate(A, numBytes, memory) ==
    IF A.disabled THEN allocate_malloc(A)
    ELSE IF allocationSize(numBytes) <= pageSize - A.offset
    THEN allocate_fromPage(A, numBytes)
    ELSE IF allocationSize(numBytes) > pageSize - headerSkip
    THEN allocate_multiPage(A, numBytes, memory)
    ELSE allocate_newPage(A, numBytes, memory)

\* the allocations whose memory the allocator holds as allocated
RECURSIVE AllocsOf(_)
AllocsOf(list) == IF list = <<>> THEN {} ELSE list[1].allocs \cup AllocsOf(Tail(list))
InUse(list, stack) == AllocsOf(list) \cup AllocsOf(stack)


(***************************************************************************)
(* pp::Input.  A string is a sequence of characters, "\\" the backslash;   *)
(* the state of an Input and of its reader as a record I:                  *)
(*   string    mString, mCount being Len(string) and mLength[i] the length *)
(*             of string i                                                  *)
(*   sIndex    mReadLoc.sIndex, from 0                                     *)
(*   cIndex    mReadLoc.cIndex, from 0                                     *)
(*   lineNo    *lineNo, the reader's line number                           *)
(*   buf       what the call wrote to buf; read returns its length, nRead  *)
(*   overrun   the call wrote beyond buf + maxSize                         *)
(***************************************************************************)
\* *c of the pointer that skipChar returns or that read computes; "nullptr"
\* for the null pointer
Input_c(I) ==
    IF I.sIndex >= Len(I.string) THEN "nullptr"
    ELSE I.string[I.sIndex + 1][I.cIndex + 1]

\* Input::skipChar
Input_skipChar(I) ==
    IF I.cIndex + 1 = Len(I.string[I.sIndex + 1])
    THEN [I EXCEPT !.sIndex = @ + 1, !.cIndex = 0]
    ELSE [I EXCEPT !.cIndex = @ + 1]

\* ++(*lineNo) without the test for INT_MAX, on a machine that wraps around
read_newLine_wrapping(I) ==
    [I EXCEPT !.lineNo = IF @ = INT_MAX THEN -INT_MAX - 1 ELSE @ + 1]

\* "Fake an EOF if the line number would overflow": return 0, or ++(*lineNo)
read_newLine(I) ==
    IF I.lineNo = INT_MAX THEN [I EXCEPT !.returned = TRUE]
    ELSE [I EXCEPT !.lineNo = @ + 1]

\* after the backslash and a '\r': a '\n' that follows is skipped too
read_carriageReturn(I) ==
    read_newLine(IF Input_c(I) = "\n" THEN Input_skipChar(I) ELSE I)

\* after the backslash has been skipped
read_afterBackslash(I) ==
    IF Input_c(I) = "\n" THEN read_newLine(Input_skipChar(I))
    ELSE IF Input_c(I) = "\r" THEN read_carriageReturn(Input_skipChar(I))
    ELSE [I EXCEPT !.buf = <<"\\">>]

\* the first part of read: a line continuation that the call before may
\* have stopped at
read_continuation(I, maxSize) ==
    IF I.sIndex < Len(I.string) /\ maxSize > 0 /\ Input_c(I) = "\\"
    THEN read_afterBackslash(Input_skipChar(I))
    ELSE I

\* the number of characters of the current string, from cIndex on and at
\* most size of them, in front of the first backslash
RECURSIVE read_size(_, _, _)
read_size(I, size, i) ==
    IF i >= size \/ I.string[I.sIndex + 1][I.cIndex + i + 1] = "\\" THEN i
    ELSE read_size(I, size, i + 1)

Min(a, b) == IF a < b THEN a ELSE b

\* memcpy, nRead += size, mReadLoc.cIndex += size, and the next string if
\* the end of the current one is reached
read_copy(I, size, maxSize) ==
    [I EXCEPT
        !.buf = @ \o SubSeq(I.string[I.sIndex + 1], I.cIndex + 1, I.cIndex + size),
        !.overrun = @ \/ Len(I.buf) + size > maxSize,
        !.sIndex = IF I.cIndex + size = Len(I.string[I.sIndex + 1]) THEN @ + 1 ELSE @,
        !.cIndex = IF I.cIndex + size = Len(I.string[I.sIndex + 1]) THEN 0 ELSE @ + size]

\* one round of the loop, size being min(size, maxSize): a backslash in
\* the first size characters sets maxRead to stop the loop
RECURSIVE read_loop(_, _, _)
read_round(I, size, stop, maxSize) ==
    IF stop < size THEN read_copy(I, stop, maxSize)
    ELSE read_loop(read_copy(I, size, maxSize), maxSize, maxSize)

\* while((nRead < maxRead) && (mReadLoc.sIndex < mCount))
read_loop(I, maxRead, maxSize) ==
    IF Len(I.buf) < maxRead /\ I.sIndex < Len(I.string)
    THEN read_round(I,
                    Min(Len(I.string[I.sIndex + 1]) - I.cIndex, maxSize),
                    read_size(I, Min(Len(I.string[I.sIndex + 1]) - I.cIndex, maxSize), 0),
                    maxSize)
    ELSE I

\* Input::read, I.buf being empty and I.returned false when it is called
Input_read(I, maxSize) ==
    IF read_continuation(I, maxSize).returned THEN read_continuation(I, maxSize)
    ELSE read_loop(read_continuation(I, maxSize), maxSize, maxSize)


(***************************************************************************)
(* LLVMJIT: the resolution of the external symbols of a routine.  A name   *)
(* is a sequence of characters, an address is a number: 0 the null         *)
(* pointer, k the host function that the k-th entry of the resolver's map  *)
(* holds, Len(functions) + 1 an address that is no entry of the map.       *)
(***************************************************************************)
\* Resolver::Resolver: the names of the map, in the build without
\* ENABLE_RR_PRINT, __ARM_EABI__ and the memory sanitizer
functions ==
    <<<<"n", "o", "p">>, <<"f", "l", "o", "o", "r", "f">>,
      <<"n", "e", "a", "r", "b", "y", "i", "n", "t", "f">>,
      <<"t", "r", "u", "n", "c", "f">>, <<"p", "r", "i", "n", "t", "f">>,
      <<"p", "u", "t", "s">>, <<"f", "m", "o", "d", "f">>,
      <<"s", "i", "n", "f">>, <<"c", "o", "s", "f">>,
      <<"a", "s", "i", "n", "f">>, <<"a", "c", "o", "s", "f">>,
      <<"a", "t", "a", "n", "f">>, <<"s", "i", "n", "h", "f">>,
      <<"c", "o", "s", "h", "f">>, <<"t", "a", "n", "h", "f">>,
      <<"a", "s", "i", "n", "h", "f">>, <<"a", "c", "o", "s", "h", "f">>,
      <<"a", "t", "a", "n", "h", "f">>, <<"a", "t", "a", "n", "2", "f">>,
      <<"p", "o", "w", "f">>, <<"e", "x", "p", "f">>, <<"l", "o", "g", "f">>,
      <<"e", "x", "p", "2", "f">>, <<"l", "o", "g", "2", "f">>,
      <<"s", "i", "n">>, <<"c", "o", "s">>, <<"a", "s", "i", "n">>,
      <<"a", "c", "o", "s">>, <<"a", "t", "a", "n">>, <<"s", "i", "n", "h">>,
      <<"c", "o", "s", "h">>, <<"t", "a", "n", "h">>,
      <<"a", "s", "i", "n", "h">>, <<"a", "c", "o", "s", "h">>,
      <<"a", "t", "a", "n", "h">>, <<"a", "t", "a", "n", "2">>,
      <<"p", "o", "w">>, <<"e", "x", "p">>, <<"l", "o", "g">>,
      <<"e", "x", "p", "2">>, <<"l", "o", "g", "2">>,
      <<"a", "t", "o", "m", "i", "c", "_", "l", "o", "a", "d">>,
      <<"a", "t", "o", "m", "i", "c", "_", "s", "t", "o", "r", "e">>,
      <<"c", "o", "r", "o", "u", "t", "i", "n", "e", "_", "a", "l", "l", "o", "c", "_", "f", "r", "a", "m", "e">>,
      <<"c", "o", "r", "o", "u", "t", "i", "n", "e", "_", "f", "r", "e", "e", "_", "f", "r", "a", "m", "e">>,
      <<"s", "i", "n", "c", "o", "s", "f">>>>

\* while(trimmed[0] == '_') { trimmed++; }
RECURSIVE trimmed(_)
trimmed(name) ==
    IF name # <<>> /\ name[1] = "_" THEN trimmed(Tail(name)) ELSE name

\* resolver.functions.find(trimmed): the entry, 0 for functions.end()
Resolver_find(name) ==
    IF \E k \in DOMAIN functions : functions[k] = name
    THEN CHOOSE k \in DOMAIN functions : functions[k] = name
    ELSE 0

\* What a call of resolveExternalSymbol may come to: [func, aborted].  With
\* the name in the map it returns it->second.  Without, ASSERT_MSG aborts
\* in the build with debugging; in the build with DISABLE_DEBUG it is
\* empty and it->second reads functions.end(), which has no defined
\* behaviour: the call may return any pointer, or end the process.
resolveExternalSymbol(name, disableDebug) ==
    IF Resolver_find(trimmed(name)) # 0
    THEN {[func |-> Resolver_find(trimmed(name)), aborted |-> FALSE]}
    ELSE IF ~disableDebug THEN {[func |-> 0, aborted |-> TRUE]}
    ELSE {[func |-> f, aborted |-> FALSE] : f \in 0..(Len(functions) + 1)}
         \cup {[func |-> 0, aborted |-> TRUE]}

\* the lambda of JITRoutine's resolver, r being what resolveExternalSymbol
\* came to: the host function, or what objLayer.findSymbol finds
JITRoutine_resolve(name, r) ==
    IF r.func # 0
    THEN [name |-> name, func |-> r.func, flags |-> "Absolute"]
    ELSE [name |-> name, func |-> 0, flags |-> "findSymbol"]


(***************************************************************************)
(* SwiftConfig.  Two of the settings of a Configuration stand for all;     *)
(* each is read and written on its own, as the members of the struct are.  *)
(***************************************************************************)
Configuration(textureSampleQuality, mipmapQuality) ==
    [textureSampleQuality |-> textureSampleQuality, mipmapQuality |-> mipmapQuality]

\* what a packet of a client holds: a GET or another request, a POST with
\* its data, a POST whose data comes in the next packet, the data of a POST
Packets == {"GET", "POST data", "POST", "data", "other"}


(***************************************************************************)
(* egl::Display: its set of surfaces.  A surface is [id, isWindowSurface,  *)
(* window]: id stands for the object's address, window is the native       *)
(* window of a window surface and 0 for a pbuffer surface.                 *)
(***************************************************************************)
Surface(id, isWindowSurface, window) ==
    [id |-> id, isWindowSurface |-> isWindowSurface, window |-> window]

\* An attribute list: null, or the name-value pairs before EGL_NONE
AttribList(null, pairs) == [null |-> null, pairs |-> pairs]

\* what eglCall holds before any call
NoCall == [name |-> "none", window |-> 0, attribList |-> AttribList(TRUE, <<>>),
           surface |-> 0]

\* the loop over attribList of createWindowSurface: the error it returns
\* with, "EGL_SUCCESS" when it comes to EGL_NONE
RECURSIVE createWindowSurface_attribs(_)
createWindowSurface_attribs(pairs) ==
    IF pairs = <<>> THEN "EGL_SUCCESS"
    ELSE CASE pairs[1][1] = "EGL_RENDER_BUFFER" ->
                  CASE pairs[1][2] = "EGL_BACK_BUFFER" ->
                           createWindowSurface_attribs(Tail(pairs))
                    [] pairs[1][2] = "EGL_SINGLE_BUFFER" -> "EGL_BAD_MATCH"
                    [] OTHER -> "EGL_BAD_ATTRIBUTE"
           [] pairs[1][1] = "EGL_VG_COLORSPACE" -> "EGL_BAD_MATCH"
           [] pairs[1][1] = "EGL_VG_ALPHA_FORMAT" -> "EGL_BAD_MATCH"
           [] OTHER -> "EGL_BAD_ATTRIBUTE"

\* hasExistingWindowSurface that finds nothing
hasExistingWindowSurface_never(surfaceSet, window) == FALSE

hasExistingWindowSurface(surfaceSet, window) ==
    \E surface \in surfaceSet : surface.isWindowSurface /\ surface.window = window

\* The display's state as a record D: [error, returned, set].
\* createWindowSurface for a new surface object id whose initialize()
\* returns initialized (it sets EGL_BAD_ALLOC when it fails)
createWindowSurface(D, window, attribList, id, initialized) ==
    LET e == IF attribList.null THEN "EGL_SUCCESS"
             ELSE createWindowSurface_attribs(attribList.pairs)
    IN  IF e # "EGL_SUCCESS" THEN [D EXCEPT !.error = e, !.returned = 0]
        ELSE IF hasExistingWindowSurface(D.set, window)
        THEN [D EXCEPT !.error = "EGL_BAD_ALLOC", !.returned = 0]
        ELSE IF ~initialized THEN [D EXCEPT !.error = "EGL_BAD_ALLOC", !.returned = 0]
        ELSE [D EXCEPT !.set = @ \cup {Surface(id, TRUE, window)},
                       !.error = "EGL_SUCCESS", !.returned = id]

\* the end of createPBufferSurface, its attributes being accepted
createPBufferSurface(D, id, initialized) ==
    IF ~initialized THEN [D EXCEPT !.error = "EGL_BAD_ALLOC", !.returned = 0]
    ELSE [D EXCEPT !.set = @ \cup {Surface(id, FALSE, 0)},
                   !.error = "EGL_SUCCESS", !.returned = id]


(***************************************************************************)
(* The state.                                                              *)
(***************************************************************************)
VARIABLES
    mConditionalStack,          \* DirectiveParser
    mMacroSet,
    mPastFirstStatement,
    mSeenNonPreprocessorToken,
    mShaderVersion,
    lineNumber,                 \* Tokenizer
    fileNumber,
    diags,                      \* reported to mDiagnostics in the last step
    calls,                      \* calls of mDirectiveHandler in the last step
    evald,                      \* an expression was parsed in the last step
    unterminated,               \* the blocks reported as unterminated in the last step
    token,                      \* what lex returned in the last step (NoToken: it loops)
    input,                      \* what the tokenizer delivered in the last step
    errorReported,              \* some diagnostic has been reported so far
    unmaterializedVariables,    \* Reactor: Variable::unmaterializedVariables
    rvalue,                     \* Variable::rvalue of each variable
    address,                    \* Variable::address of each variable
    slot,                       \* the stack slots' contents
    emitted,                    \* instructions emitted in the last step
    insertBlock,                \* the builder's insert block
    live,                       \* the variables constructed and not destroyed
    lastStored,                 \* the value last stored to each variable
    constructs,                 \* the open For / If / Do constructs, innermost last
    op                          \* the operation of the last step

VARIABLES
    mLoopStack,                 \* ValidateLimitations
    mNumErrors,
    mShaderType,                \* 0 until the validator is constructed
    reported,                   \* the reasons given to error() in the last step
    lastNode,                   \* the node the traversal came to in the last step
    lastVisited,                \* whether the traverser called visit for it
    path                        \* the loops around the traversal's position, outermost
                                \* first: [entered, index], entered when the loop's
                                \* body is traversed, index the symbol it declares

ppVars == <<mConditionalStack, mMacroSet, mPastFirstStatement,
            mSeenNonPreprocessorToken, mShaderVersion, lineNumber, fileNumber,
            diags, calls, evald, unterminated, token, input, errorReported>>

rrVars == <<unmaterializedVariables, rvalue, address, slot, emitted, insertBlock,
            live, lastStored, constructs, op>>

VARIABLES
    alignment,                  \* TPoolAllocator; 0 until it is constructed
    disablePoolAlloc,           \* the build defines DISABLE_POOL_ALLOC
    currentPageOffset,
    freeList,
    inUseList,
    mStack,
    numCalls,
    pushed,                     \* for each push() not yet matched by a pop(): inUseList,
                                \* currentPageOffset and the allocations in use before it
    called                      \* the function of TPoolAllocator called in the last step

VARIABLES
    mString,                    \* pp::Input; <<>> until it is constructed
    mReadLoc,
    lineNo,                     \* the line number of the reader of the Input
    buf,                        \* what the last call of read wrote to buf
    reading,                    \* "open"; "eof" once read has returned 0; "undefined"
                                \* once read has written beyond its buffer
    firstLine,                  \* the line number at the first call of read
    delivered                   \* what the calls of read wrote so far

VARIABLES
    jit,                        \* JITRoutine: "none", "built", "aborted"
    jitDisableDebug,            \* the build defines DISABLE_DEBUG
    jitSymbols                  \* the JITSymbols its resolver returned, the last one last

vlVars == <<mLoopStack, mNumErrors, mShaderType, reported, lastNode, lastVisited, path>>

\* the compiler front end apart from the preprocessor
paVars == <<alignment, disablePoolAlloc, currentPageOffset, freeList, inUseList, mStack,
            numCalls, pushed, called>>

inVars == <<mString, mReadLoc, lineNo, buf, reading, firstLine, delivered>>

jitVars == <<jit, jitDisableDebug, jitSymbols>>

VARIABLES
    config,                     \* SwiftConfig: the configuration settings
    configuration,              \* the copy that getConfiguration fills in
    criticalSection,            \* the thread that holds it, or "free"
    terminate,
    newConfig,
    receiveBuffer,              \* whether it is allocated
    listenSocket,               \* whether it exists
    serverThread,               \* where the server thread stands, "none" without one
    caller,                     \* where the calling thread stands
    clientSocket,               \* the client's connection: "none", "pending", "open",
                                \* "closed" once the client has closed its end
    network,                    \* the client's packets that were not received yet
    bytesReceived,
    request                     \* the request that respond answers

VARIABLES
    mSurfaceSet,                \* egl::Display: the surfaces, [id, isWindowSurface, window]
    currentError,               \* the thread's EGL error
    currentDrawSurface,         \* the thread's current surfaces, 0 for none
    currentReadSurface,
    eglCall,                    \* the last call: [name, window, attribList, surface]
    eglReturned                 \* what it returned: a surface's id, 0 for EGL_NO_SURFACE

scVars == <<config, configuration, criticalSection, terminate, newConfig, receiveBuffer,
           listenSocket, serverThread, caller, clientSocket, network, bytesReceived,
           request>>

eglVars == <<mSurfaceSet, currentError, currentDrawSurface, currentReadSurface, eglCall,
            eglReturned>>

feVars == <<vlVars, paVars, inVars, jitVars, scVars, eglVars>>

vars == <<ppVars, rrVars, feVars>>

Vars == 1..MaxVars
Values == 1..MaxValue

VState ==
    [loops |-> mLoopStack, errors |-> mNumErrors, reported |-> {}, shader |-> mShaderType]

NoNode == [node |-> "none"]

IState ==
    [sIndex |-> mReadLoc.sIndex, string |-> mString, cIndex |-> mReadLoc.cIndex,
     lineNo |-> lineNo, buf |-> <<>>, returned |-> FALSE, overrun |-> FALSE]

AState ==
    [stack |-> mStack, calls |-> numCalls, offset |-> currentPageOffset,
     disabled |-> disablePoolAlloc, inUse |-> inUseList, free |-> freeList]

RState ==
    [unmat |-> unmaterializedVariables, rvalue |-> rvalue, address |-> address,
     slot |-> slot, emitted |-> <<>>, insertBlock |-> insertBlock]

PState ==
    [stack |-> mConditionalStack, macros |-> mMacroSet, past |-> mPastFirstStatement,
     seen |-> mSeenNonPreprocessorToken, version |-> mShaderVersion,
     line |-> lineNumber, file |-> fileNumber,
     diags |-> diags, calls |-> calls, evald |-> evald, unterminated |-> unterminated]

\* The constructor of DirectiveParser, over a macro set that holds the
\* predefined GL_ES and a tokenizer at line 1 of string 0; and
\* Nucleus::Nucleus with Nucleus::createFunction: an empty set of
\* variables, one block; and no ValidateLimitations yet.
Init ==
    /\ mConditionalStack = <<>>
    /\ mMacroSet = PredefineMacro(<<>>, sGL_ES, 1)
    /\ mPastFirstStatement = FALSE
    /\ mSeenNonPreprocessorToken = FALSE
    /\ mShaderVersion = 100
    /\ lineNumber = 1
    /\ fileNumber = 0
    /\ diags = {}
    /\ calls = {}
    /\ evald = FALSE
    /\ unterminated = <<>>
    /\ token = NoToken
    /\ input = NoItem
    /\ errorReported = FALSE
    /\ unmaterializedVariables = {}
    /\ rvalue = [v \in Vars |-> 0]
    /\ address = [v \in Vars |-> 0]
    /\ slot = [v \in Vars |-> 0]
    /\ emitted = <<>>
    /\ insertBlock = Nucleus_createBasicBlock("entry", 0)
    /\ live = {}
    /\ lastStored = [v \in Vars |-> 0]
    /\ constructs = <<>>
    /\ op = "Nucleus"
    /\ mLoopStack = <<>>
    /\ mNumErrors = 0
    /\ mShaderType = 0
    /\ reported = {}
    /\ lastNode = NoNode
    /\ lastVisited = FALSE
    /\ path = <<>>
    /\ alignment = 0
    /\ disablePoolAlloc = FALSE
    /\ currentPageOffset = 0
    /\ freeList = <<>>
    /\ inUseList = <<>>
    /\ mStack = <<>>
    /\ numCalls = 0
    /\ pushed = <<>>
    /\ called = "none"
    /\ mString = <<>>
    /\ mReadLoc = [sIndex |-> 0, cIndex |-> 0]
    /\ lineNo = 1
    /\ buf = <<>>
    /\ reading = "none"
    /\ firstLine = 1
    /\ delivered = <<>>
    /\ jit = "none"
    /\ jitDisableDebug = FALSE
    /\ jitSymbols = <<>>
    /\ config = Configuration(0, 0)
    /\ configuration = Configuration(0, 0)
    /\ criticalSection = "free"
    /\ terminate = FALSE
    /\ newConfig = FALSE
    /\ receiveBuffer = FALSE
    /\ listenSocket = FALSE
    /\ serverThread = "none"
    /\ caller = "none"
    /\ clientSocket = "none"
    /\ network = <<>>
    /\ bytesReceived = 0
    /\ request = "none"
    /\ mSurfaceSet = {}
    /\ currentError = "EGL_SUCCESS"
    /\ currentDrawSurface = 0
    /\ currentReadSurface = 0
    /\ eglCall = NoCall
    /\ eglReturned = 0

(***************************************************************************)
(* The inputs.                                                             *)
(***************************************************************************)
T0 == Num(<<"0">>)
T1 == Num(<<"1">>)
LP == Tok("(", <<"(">>, FALSE)
RP == Tok(")", <<")">>, FALSE)
COMMA == Tok(",", <<",">>, FALSE)
COLON == Tok(":", <<":">>, TRUE)
NOT == Tok("!", <<"!">>, TRUE)
PLUS == Tok("+", <<"+">>, TRUE)

\* Lines that follow the name of a conditional directive
IfLines ==
    {<<T1>>, <<T0>>, <<Id(sA)>>, <<T1, T1>>,
     <<Id(kDefined), Id(sA)>>, <<Id(kDefined), LP, Id(sA), RP>>,
     <<Id(kDefined), LP, Id(sA)>>}
IfdefLines == {<<Id(sA)>>, <<>>}
ElseLines == {<<>>, <<T1>>}
\* Lines that follow "define" and "undef"
DefineLines ==
    {<<Id(sA)>>, <<Id(sA), T1>>, <<Id(sA), T0>>, <<Id(sA), T1, T0>>,
     <<Id(sA), PLUS, T1>>, <<Id(sA), [PLUS EXCEPT !.sp = FALSE], T1>>,
     <<Id(sA), LP, RP, T1>>, <<Id(sA), LP, Id(sx), COMMA, Id(sx), RP, T1>>,
     <<Id(sA), LP, Id(sx), T1>>, <<Id(sA), [LP EXCEPT !.sp = TRUE], RP>>,
     <<Id(sA), LP, Id(sx), COMMA, Id(sB), COMMA, Id(sx), RP, T1>>,
     <<Id(sGL_X), LP, Id(sx), COMMA, Id(sx), RP, T1>>,
     <<Id(sGL_ES), T0>>, <<Id(sGL_X), T1>>, <<Id(s__VERSION__), T1>>,
     <<>>, <<T1>>}
UndefLines == {<<Id(sA)>>, <<Id(sGL_ES)>>, <<Id(s__VERSION__)>>, <<>>, <<Id(sA), T1>>}
\* Lines that follow the other directives' names
ErrorLines == {<<Id(sA)>>}
PragmaLines == {<<>>, <<Id(sA)>>, <<Id(sA), LP, Id(sB), RP>>, <<Id(sSTDGL), Id(sA)>>,
                <<Id(sA), LP>>}
ExtensionLines == {<<Id(sA), COLON, Id(sB)>>, <<Id(sA)>>, <<T1>>,
                   <<Id(sA), COLON, T1>>, <<Id(sA), COLON, Id(sB), T1>>}
VersionLines ==
    {<<Num(<<"1", "0", "0">>)>>, <<Num(<<"3", "0", "0">>), Id(ses)>>,
     <<Num(<<"3", "1", "0">>), Id(ses)>>, <<Num(<<"3", "0", "0">>)>>,
     <<Num(<<"3", "0", "0">>), Id(sA)>>,
     <<Num(<<"3", "0", "0">>), Id(ses), T1>>, <<Id(ses)>>, <<>>,
     <<Num(<<"4", "2", "9", "4", "9", "6", "7", "2", "9", "6">>)>>}
LineLines == {<<T1>>, <<T1, T1>>, <<>>, <<Id(sB)>>, <<T1, T1, T1>>, <<Num(<<"2">>)>>}
NoneLines == {<<Id(sA)>>, <<T1>>}

(***************************************************************************)
(* The actions: one iteration of the loop of DirectiveParser::lex each.    *)
(***************************************************************************)
\* The step's outcome r = [P, token] becomes the next state
Deliver(r, item) ==
    /\ mConditionalStack' = r.P.stack
    /\ mMacroSet' = r.P.macros
    /\ mPastFirstStatement' = r.P.past
    /\ mSeenNonPreprocessorToken' = r.P.seen
    /\ mShaderVersion' = r.P.version
    /\ lineNumber' = r.P.line
    /\ fileNumber' = r.P.file
    /\ diags' = r.P.diags
    /\ calls' = r.P.calls
    /\ evald' = r.P.evald
    /\ unterminated' = r.P.unterminated
    /\ token' = r.token
    /\ input' = item
    /\ errorReported' = (errorReported \/ r.P.diags # {})
    /\ UNCHANGED <<rrVars, feVars>>

\* lex is called until it has returned Token::LAST
Running == token.type # "LAST"

Iterate(item) ==
    /\ item.eod = "NEWLINE" => lineNumber < MaxLine
    /\ Deliver(DirectiveParser_lex(PState, item), item)

\* a directive whose line ends with a newline, or with the end of the input
Directive(name, lines, eods) ==
    \E l \in lines, eod \in eods : Iterate(HashItem(<<Id(name)>> \o l, eod))

LexToken == Running /\ Iterate(TokenItem(Id(sA)))
LexNewline == Running /\ Iterate(TokenItem(Tok("NEWLINE", <<>>, FALSE)))
LexLast == Running /\ Iterate(TokenItem(Tok("LAST", <<>>, FALSE)))
LexEmptyDirective == Running /\ Iterate(HashItem(<<>>, "NEWLINE"))
LexInvalidDirective == Running /\ \E l \in NoneLines : Iterate(HashItem(l, "NEWLINE"))
LexDefine(lines) == Running /\ Directive(kDirectiveDefine, lines, {"NEWLINE"})
LexUndef(lines) == Running /\ Directive(kDirectiveUndef, lines, {"NEWLINE"})
LexIf(lines) ==
    /\ Running /\ Len(mConditionalStack) < MaxDepth
    /\ Directive(kDirectiveIf, lines, {"NEWLINE"})
LexIfdef ==
    /\ Running /\ Len(mConditionalStack) < MaxDepth
    /\ Directive(kDirectiveIfdef, IfdefLines, {"NEWLINE"})
LexIfndef ==
    /\ Running /\ Len(mConditionalStack) < MaxDepth
    /\ Directive(kDirectiveIfndef, IfdefLines, {"NEWLINE"})
LexElse == Running /\ Directive(kDirectiveElse, ElseLines, {"NEWLINE"})
LexElif(lines) == Running /\ Directive(kDirectiveElif, lines, {"NEWLINE"})
LexEndif == Running /\ Directive(kDirectiveEndif, ElseLines, {"NEWLINE", "LAST"})
LexError == Running /\ Directive(kDirectiveError, ErrorLines, {"NEWLINE"})
LexPragma == Running /\ Directive(kDirectivePragma, PragmaLines, {"NEWLINE"})
LexExtension == Running /\ Directive(kDirectiveExtension, ExtensionLines, {"NEWLINE"})
LexVersion(lines) == Running /\ Directive(kDirectiveVersion, lines, {"NEWLINE"})
LexLine == Running /\ Directive(kDirectiveLine, LineLines, {"NEWLINE"})

\* The MacroExpander above the DirectiveParser: it counts an invocation of
\* the macro that the identifier lex returned names, goes on calling lex
\* for the rest of the invocation, and later ends the invocation.
ExpanderStep(macroSet) ==
    /\ mMacroSet' = macroSet
    /\ diags' = {}
    /\ calls' = {}
    /\ evald' = FALSE
    /\ unterminated' = <<>>
    /\ input' = NoItem
    /\ UNCHANGED <<mConditionalStack, mPastFirstStatement, mSeenNonPreprocessorToken,
                   mShaderVersion, lineNumber, fileNumber, token, errorReported, rrVars,
                   feVars>>

MacroExpander_begin ==
    /\ token.type = "IDENTIFIER"
    /\ token.text \in DOMAIN mMacroSet
    /\ mMacroSet[token.text].expansionCount < MaxExpansionCount
    /\ ExpanderStep([mMacroSet EXCEPT ![token.text].expansionCount = @ + 1])

MacroExpander_end ==
    \E n \in DOMAIN mMacroSet :
        /\ mMacroSet[n].expansionCount > 0
        /\ ExpanderStep([mMacroSet EXCEPT ![n].expansionCount = @ - 1])

(***************************************************************************)
(* The actions of Reactor: the operations a routine's builder performs.    *)
(***************************************************************************)
RStep(R, name) ==
    /\ unmaterializedVariables' = R.unmat
    /\ rvalue' = R.rvalue
    /\ address' = R.address
    /\ slot' = R.slot
    /\ emitted' = R.emitted
    /\ insertBlock' = R.insertBlock
    /\ op' = name
    /\ UNCHANGED <<ppVars, feVars>>

Top == constructs[Len(constructs)]
Push(D) == constructs' = Append(constructs, D)
Pop == constructs' = SubSeq(constructs, 1, Len(constructs) - 1)
SetTop(D) == constructs' = [constructs EXCEPT ![Len(constructs)] = D]

\* Variable::Variable
Variable_ctor ==
    \E v \in Vars \ live :
        /\ live' = live \cup {v}
        /\ RStep([RState EXCEPT !.unmat = @ \cup {v}, !.rvalue[v] = 0,
                                !.address[v] = 0, !.slot[v] = 0], "Variable")
        /\ lastStored' = [lastStored EXCEPT ![v] = 0]
        /\ UNCHANGED constructs

\* Variable::~Variable
Variable_dtor ==
    \E v \in live :
        /\ live' = live \ {v}
        /\ RStep([RState EXCEPT !.unmat = @ \ {v}, !.rvalue[v] = 0,
                                !.address[v] = 0, !.slot[v] = 0], "~Variable")
        /\ lastStored' = [lastStored EXCEPT ![v] = 0]
        /\ UNCHANGED constructs

StoreValue ==
    \E v \in live, value \in Values :
        /\ RStep(Variable_storeValue(RState, v, value), "storeValue")
        /\ lastStored' = [lastStored EXCEPT ![v] = value]
        /\ UNCHANGED <<live, constructs>>

LoadValue ==
    \E v \in live :
        /\ RStep(Variable_loadValue(RState, v), "loadValue")
        /\ UNCHANGED <<live, lastStored, constructs>>

GetBaseAddress ==
    \E v \in live :
        /\ RStep(Variable_getBaseAddress(RState, v), "getBaseAddress")
        /\ UNCHANGED <<live, lastStored, constructs>>

ReturnStmt ==
    \E void \in BOOLEAN :
        /\ RStep(Return(RState, void), "Return")
        /\ UNCHANGED <<live, lastStored, constructs>>

CreateSwitch ==
    /\ RStep(Nucleus_createSwitch(RState, NoBlock), "createSwitch")
    /\ UNCHANGED <<live, lastStored, constructs>>

CreateUnreachable ==
    /\ RStep(Nucleus_createUnreachable(RState), "createUnreachable")
    /\ UNCHANGED <<live, lastStored, constructs>>

For_setup ==
    /\ Len(constructs) < MaxNest
    /\ LET r == ForData_setup(RState, [testBB |-> NoBlock, phase |-> "setup",
                                       endBB |-> NoBlock, beginBB |-> NoBlock,
                                       trueBB |-> NoBlock, kind |-> "For",
                                       falseBB |-> NoBlock], Len(constructs) + 1)
       IN  RStep(r.R, "For_setup") /\ Push(r.D)
    /\ UNCHANGED <<live, lastStored>>

For_test ==
    /\ constructs # <<>> /\ Top.kind = "For" /\ Top.phase = "test"
    /\ LET r == ForData_test(RState, Top, Len(constructs))
       IN  RStep(r.R, "For_test") /\ SetTop(r.D)
    /\ UNCHANGED <<live, lastStored>>

For_end ==
    /\ constructs # <<>> /\ Top.kind = "For" /\ Top.phase = "body"
    /\ RStep(ForData_end(RState, Top), "For_end") /\ Pop
    /\ UNCHANGED <<live, lastStored>>

If_begin ==
    /\ Len(constructs) < MaxNest
    /\ LET r == IfElseData_ctor(RState, Len(constructs) + 1)
       IN  RStep(r.R, "If") /\ Push(r.D)
    /\ UNCHANGED <<live, lastStored>>

Else_clause ==
    /\ constructs # <<>> /\ Top.kind = "If" /\ Top.phase = "if"
    /\ LET r == IfElseData_elseClause(RState, Top, Len(constructs))
       IN  RStep(r.R, "Else") /\ SetTop(r.D)
    /\ UNCHANGED <<live, lastStored>>

If_end ==
    /\ constructs # <<>> /\ Top.kind = "If"
    /\ RStep(IfElseData_dtor(RState, Top), "~IfElseData") /\ Pop
    /\ UNCHANGED <<live, lastStored>>

Do_stmt ==
    /\ Len(constructs) < MaxNest
    /\ LET r == Do_begin(RState, Len(constructs) + 1)
       IN  RStep(r.R, "Do") /\ Push(r.D)
    /\ UNCHANGED <<live, lastStored>>

Until_stmt ==
    /\ constructs # <<>> /\ Top.kind = "Do"
    /\ RStep(Until(RState, Top, Len(constructs)), "Until") /\ Pop
    /\ UNCHANGED <<live, lastStored>>

\* Variables and the terminators that are built directly
NextVariable ==
    \/ Variable_ctor \/ Variable_dtor \/ StoreValue \/ LoadValue \/ GetBaseAddress
    \/ ReturnStmt \/ CreateSwitch \/ CreateUnreachable

SpecVariable == Init /\ [][NextVariable]_vars

\* Variables inside the control-flow constructs
NextFlow ==
    \/ Variable_ctor \/ Variable_dtor \/ StoreValue \/ LoadValue \/ GetBaseAddress
    \/ For_setup \/ For_test \/ For_end
    \/ If_begin \/ Else_clause \/ If_end
    \/ Do_stmt \/ Until_stmt

SpecFlow == Init /\ [][NextFlow]_vars

(***************************************************************************)
(* The preprocessor's specifications: the conditional directives, the      *)
(* macro table, and the directives of a shader's prologue.                 *)
(***************************************************************************)
NextCond ==
    \/ LexToken \/ LexNewline \/ LexLast \/ LexInvalidDirective
    \/ LexDefine({<<Id(sA), T0>>}) \/ LexUndef({<<Id(sA)>>})
    \/ LexIf(IfLines) \/ LexIfdef \/ LexIfndef
    \/ LexElse \/ LexElif(IfLines) \/ LexEndif

SpecCond == Init /\ [][NextCond]_vars

NextMacro ==
    \/ LexToken \/ LexLast \/ LexVersion({<<Num(<<"3", "0", "0">>), Id(ses)>>})
    \/ LexDefine(DefineLines) \/ LexUndef(UndefLines)
    \/ MacroExpander_begin \/ MacroExpander_end

SpecMacro == Init /\ [][NextMacro]_vars

NextPrologue ==
    \/ LexToken \/ LexNewline \/ LexLast \/ LexEmptyDirective
    \/ LexIf({<<T0>>, <<T1>>}) \/ LexEndif
    \/ LexError \/ LexPragma \/ LexExtension \/ LexVersion(VersionLines) \/ LexLine

SpecPrologue == Init /\ [][NextPrologue]_vars

\* a #error on the last line of the input, which no newline ends
LexErrorAtEnd == Running /\ Directive(kDirectiveError, ErrorLines, {"LAST"})

\* every directive, inside and outside the groups of #if 0 ... #else ... #endif
NextSkipped ==
    \/ LexToken \/ LexLast \/ LexIf({<<T0>>}) \/ LexElse \/ LexEndif
    \/ LexInvalidDirective \/ LexDefine({<<Id(sA), T0>>}) \/ LexUndef({<<Id(sA)>>})
    \/ LexError \/ LexErrorAtEnd \/ LexPragma \/ LexExtension
    \/ LexVersion(VersionLines) \/ LexLine

SpecSkipped == Init /\ [][NextSkipped]_vars

(***************************************************************************)
(* The traversal of a shader's tree by ValidateLimitations.  The nodes     *)
(* come in the traverser's order; the children of a node whose visit      *)
(* returned false are passed over, which is every loop's: visitLoop        *)
(* traverses the body itself, when it has accepted the header.             *)
(***************************************************************************)
Sym(id, type, qualifier) == [id |-> id, basicType |-> type, qualifier |-> qualifier]
NoSymbol == Sym(0, "EbtVoid", "EvqTemporary")
SymbolOperand(symbol) ==
    [symbol |-> symbol, form |-> "symbol", symbols |-> {symbol},
     scalarInt |-> IsInteger(symbol.basicType)]
ConstantOperand(scalarInt) ==
    [symbol |-> NoSymbol, form |-> "constant", symbols |-> {}, scalarInt |-> scalarInt]
OtherOperand(symbols, scalarInt) ==
    [symbol |-> NoSymbol, form |-> "other", symbols |-> symbols, scalarInt |-> scalarInt]

\* variables declared outside the loops: ids above those of the indices
TempInt == Sym(MaxLoopDepth + 2, "EbtInt", "EvqTemporary")
ConstInt == Sym(MaxLoopDepth + 3, "EbtInt", "EvqConstExpr")
TempArray == Sym(MaxLoopDepth + 4, "EbtFloat", "EvqTemporary")
UniformArray == Sym(MaxLoopDepth + 5, "EbtFloat", "EvqUniform")
SamplerArray == Sym(MaxLoopDepth + 6, "EbtSampler2D", "EvqUniform")

\* for(type index = C; index < C; ++index) body
ForLoop(index) ==
    [cond |-> [op |-> "EOpLessThan", present |-> TRUE, left |-> SymbolOperand(index),
               right |-> ConstantOperand(TRUE), binary |-> TRUE],
     body |-> TRUE, node |-> "loop", loopType |-> "ELoopFor",
     init |-> [present |-> TRUE, declaration |-> TRUE, size |-> 1, initialize |-> TRUE,
               left |-> SymbolOperand(index), right |-> ConstantOperand(TRUE)],
     expr |-> [op |-> "EOpPreIncrement", operand |-> SymbolOperand(index), present |-> TRUE,
               right |-> ConstantOperand(TRUE), binary |-> FALSE, unary |-> TRUE]]

\* the loop with the step  index o right
BinaryStep(loop, o, right) ==
    [loop EXCEPT !.expr.unary = FALSE, !.expr.binary = TRUE, !.expr.op = o,
                 !.expr.right = right]

\* The loops a shader may hold at nesting depth d: the index is a new
\* symbol, and a header may also name a variable declared outside.
Loops(d) ==
    LET int == ForLoop(Sym(d, "EbtInt", "EvqTemporary"))
        other == OtherOperand({TempInt}, TRUE)
        temp == SymbolOperand(TempInt)
    IN  {ForLoop(Sym(d, type, "EvqTemporary")) : type \in {"EbtInt", "EbtUInt", "EbtFloat", "EbtBool"}}
        \cup {[int EXCEPT !.cond.op = o] :
                 o \in RelationalOperators \cup {"EOpAdd", "EOpLogicalAnd"}}
        \cup {[int EXCEPT !.expr.op = o] :
                 o \in {"EOpPostIncrement", "EOpPostDecrement", "EOpPreDecrement", "EOpNegative"}}
        \cup {BinaryStep(int, o, r) :
                 o \in {"EOpAddAssign", "EOpSubAssign", "EOpAssign", "EOpMulAssign"},
                 r \in {ConstantOperand(TRUE), temp}}
        \cup {[int EXCEPT !.loopType = t] : t \in {"ELoopWhile", "ELoopDoWhile"}}
        \cup {[int EXCEPT !.init.present = FALSE], [int EXCEPT !.init.declaration = FALSE],
              [int EXCEPT !.init.size = 2], [int EXCEPT !.init.initialize = FALSE],
              [int EXCEPT !.init.left = other], [int EXCEPT !.init.right = temp],
              [int EXCEPT !.cond.present = FALSE], [int EXCEPT !.cond.binary = FALSE],
              [int EXCEPT !.cond.left = other], [int EXCEPT !.cond.left = temp],
              [int EXCEPT !.cond.right = temp],
              [int EXCEPT !.cond.op = "EOpAdd", !.cond.right = temp],
              [int EXCEPT !.expr.present = FALSE],
              [int EXCEPT !.expr.unary = FALSE],
              [int EXCEPT !.expr.operand = other], [int EXCEPT !.expr.operand = temp],
              [int EXCEPT !.body = FALSE],
              [int EXCEPT !.body = FALSE, !.cond.present = FALSE]}

\* The symbols a node inside the loops of the path may name: the indices
\* of those loops and the variables declared outside.
Indices == {path[k].index : k \in DOMAIN path} \ {NoSymbol}
Operands ==
    {SymbolOperand(symbol) : symbol \in Indices \cup {TempInt, ConstInt}}
    \cup {ConstantOperand(TRUE), ConstantOperand(FALSE), OtherOperand({}, TRUE)}
    \cup {OtherOperand({symbol, ConstInt}, TRUE) : symbol \in Indices \cup {TempInt}}

Binaries ==
    {[op |-> o, node |-> "binary", left |-> l, right |-> ConstantOperand(TRUE)] :
        o \in {"EOpAssign", "EOpAddAssign", "EOpAdd"},
        l \in {SymbolOperand(symbol) : symbol \in Indices \cup {TempInt}}
              \cup {OtherOperand(Indices, TRUE)}}
    \cup {[op |-> "EOpIndexIndirect", node |-> "binary", left |-> SymbolOperand(a), right |-> r] :
             a \in {TempArray, UniformArray, SamplerArray}, r \in Operands}
    \cup {[op |-> "EOpIndexDirect", node |-> "binary", left |-> SymbolOperand(a),
           right |-> ConstantOperand(TRUE)] : a \in {TempArray, SamplerArray}}

Unaries ==
    {[op |-> o, operand |-> SymbolOperand(symbol), node |-> "unary"] :
        o \in {"EOpPostIncrement", "EOpPreDecrement", "EOpNegative"},
        symbol \in Indices \cup {TempInt}}

Aggregates ==
    {[params |-> <<SymbolOperand(symbol)>>, op |-> o, node |-> "aggregate", function |-> <<q>>] :
        o \in {"EOpFunctionCall", "EOpConstructFloat"},
        symbol \in Indices \cup {TempInt}, q \in {"EvqIn", "EvqOut", "EvqInOut"}}
    \cup {[params |-> <<SymbolOperand(symbol), SymbolOperand(second)>>,
           op |-> "EOpFunctionCall", node |-> "aggregate",
           function |-> <<"EvqInOut", "EvqOut">>] :
             symbol \in Indices, second \in Indices \cup {TempInt}}

\* the traversal is inside a loop whose body is not traversed
Passed == \E k \in DOMAIN path : ~path[k].entered

\* the validator is at work, and the traversal is followed
Traversing == mShaderType # 0 /\ mNumErrors < MaxErrors

VStep(V, node, visited) ==
    /\ mLoopStack' = V.loops
    /\ mNumErrors' = V.errors
    /\ reported' = V.reported
    /\ lastNode' = node
    /\ lastVisited' = visited
    /\ UNCHANGED <<mShaderType, ppVars, rrVars, paVars, inVars, jitVars, scVars, eglVars>>

\* ValidateLimitations::ValidateLimitations(shaderType, sink)
ValidateLimitations_ctor ==
    /\ mShaderType = 0
    /\ \E shaderType \in {GL_VERTEX_SHADER, GL_FRAGMENT_SHADER} : mShaderType' = shaderType
    /\ mNumErrors' = 0
    /\ UNCHANGED <<mLoopStack, reported, lastNode, lastVisited, path, ppVars, rrVars, paVars,
                    inVars, jitVars, scVars, eglVars>>

\* the index a loop's header declares, if it declares a symbol
DeclaredIndex(node) ==
    IF node.init.present /\ node.init.declaration /\ node.init.left.form = "symbol"
    THEN node.init.left.symbol ELSE NoSymbol

\* the traversal comes to a loop node: r is what visitLoop made of it
LoopStep(r, node) ==
    /\ VStep(r.V, node, TRUE)
    /\ path' = IF node.body
               THEN Append(path, [index |-> DeclaredIndex(node), entered |-> r.accepted])
               ELSE path

Traverse_loop ==
    /\ Traversing /\ Len(path) < MaxLoopDepth
    /\ \E node \in Loops(Len(path) + 1) :
           IF Passed
           THEN /\ VStep(VState, node, FALSE)
                /\ path' = IF node.body
                           THEN Append(path, [index |-> NoSymbol, entered |-> FALSE])
                           ELSE path
           ELSE LoopStep(visitLoop(VState, node), node)

\* the traversal leaves a loop's body
Traverse_loopEnd ==
    /\ mShaderType # 0 /\ path # <<>>
    /\ VStep(IF path[Len(path)].entered THEN visitLoop_pop(VState) ELSE VState,
             [node |-> "end"], path[Len(path)].entered)
    /\ path' = SubSeq(path, 1, Len(path) - 1)

\* the traversal comes to another node: V is what its visit makes of it
Traverse(node, V) ==
    /\ VStep(IF Passed THEN VState ELSE V, node, ~Passed)
    /\ UNCHANGED path

Traverse_binary ==
    Traversing /\ \E node \in Binaries : Traverse(node, visitBinary(VState, node))
Traverse_unary ==
    Traversing /\ \E node \in Unaries : Traverse(node, visitUnary(VState, node))
Traverse_aggregate ==
    Traversing /\ \E node \in Aggregates : Traverse(node, visitAggregate(VState, node))

NextLimitations ==
    \/ ValidateLimitations_ctor
    \/ Traverse_loop \/ Traverse_loopEnd
    \/ Traverse_binary \/ Traverse_unary \/ Traverse_aggregate

SpecLimitations == Init /\ [][NextLimitations]_vars

(***************************************************************************)
(* The calls of a TPoolAllocator's functions by its user.                  *)
(***************************************************************************)
\* the blocks of the heap that operator new may return: those that are
\* neither in inUseList nor in freeList; 0 when there is none left
Heap == 1..MaxPages
FreshMemory ==
    LET fresh == Heap \ ({inUseList[k].address : k \in DOMAIN inUseList}
                         \cup {freeList[k] : k \in DOMAIN freeList})
    IN  IF fresh = {} THEN {0} ELSE fresh

\* the allocator exists and its behaviour is defined
Allocating == alignment # 0 /\ called # "undefined"

AStep(A, name) ==
    /\ currentPageOffset' = A.offset
    /\ freeList' = A.free
    /\ inUseList' = A.inUse
    /\ mStack' = A.stack
    /\ numCalls' = A.calls
    /\ called' = name
    /\ UNCHANGED <<alignment, disablePoolAlloc, ppVars, rrVars, vlVars, inVars, jitVars, scVars, eglVars>>

\* TPoolAllocator::TPoolAllocator(growthIncrement, allocationAlignment), in
\* either build
TPoolAllocator_ctor ==
    /\ alignment = 0
    /\ alignment' = Alignment
    /\ \E disabled \in BOOLEAN :
           /\ disablePoolAlloc' = disabled
           /\ currentPageOffset' = IF disabled THEN 0 ELSE pageSize
           /\ mStack' = IF disabled THEN <<tAllocState(0, 0)>> ELSE <<>>
    /\ called' = "TPoolAllocator"
    /\ UNCHANGED <<freeList, inUseList, numCalls, pushed, ppVars, rrVars, vlVars, inVars,
                    jitVars, scVars, eglVars>>

Call_push ==
    /\ Allocating /\ Len(pushed) < MaxPush
    /\ AStep(TPoolAllocator_push(AState), "push")
    /\ pushed' = Append(pushed, [inUse |-> InUse(inUseList, mStack),
                                 currentPageOffset |-> currentPageOffset,
                                 inUseList |-> inUseList])

Call_pop ==
    /\ Allocating
    /\ AStep(TPoolAllocator_pop(AState), "pop")
    /\ pushed' = SubSeq(pushed, 1, Len(pushed) - 1)

Call_popAll ==
    /\ Allocating
    /\ AStep(TPoolAllocator_popAll(AState), "popAll")
    /\ pushed' = <<>>

\* mStack.back() of an empty vector has no defined behaviour
Call_allocate ==
    /\ Allocating /\ numCalls < MaxCalls
    /\ pushed' = pushed
    /\ IF disablePoolAlloc /\ mStack = <<>>
       THEN AStep(AState, "undefined")
       ELSE \E numBytes \in 0..MaxBytes, memory \in FreshMemory :
                AStep(TPoolAllocator_allocate([AState EXCEPT !.calls = @ + 1],
                                              numBytes, memory),
                      "allocate")

NextPool == TPoolAllocator_ctor \/ Call_push \/ Call_pop \/ Call_popAll \/ Call_allocate

SpecPool == Init /\ [][NextPool]_vars


(***************************************************************************)
(* An Input and its reader, which calls read until it returns 0.           *)
(***************************************************************************)
Chars == {"\\", "\n", "\r", "a"}
RECURSIVE Strings(_)
Strings(n) ==
    IF n = 0 THEN {<<>>}
    ELSE {<<>>} \cup {<<c>> \o t : c \in Chars, t \in Strings(n - 1)}

\* the arrays of strings an Input may be given: none of them empty, and
\* MaxChars characters at most in all
RECURSIVE Sources(_, _)
Sources(count, chars) ==
    IF count = 0 \/ chars = 0 THEN {<<>>}
    ELSE {<<>>} \cup
         UNION {{<<t>> \o rest : rest \in Sources(count - 1, chars - Len(t))} :
                   t \in Strings(chars) \ {<<>>}}

\* the sizes of the buffers that the reader passes
MaxSizes == {1, 2, MaxChars + 1}

\* Input::Input(count, string, length), and the reader's line number
Input_ctor ==
    /\ reading = "none"
    /\ \E string \in Sources(MaxStrings, MaxChars) \ {<<>>}, line \in {1, INT_MAX - 1, INT_MAX} :
           /\ mString' = string
           /\ lineNo' = line
           /\ firstLine' = line
    /\ reading' = "open"
    /\ UNCHANGED <<mReadLoc, buf, delivered, ppVars, rrVars, vlVars, paVars, jitVars, scVars, eglVars>>

\* what a call of read leaves
IStep(I) ==
    /\ mReadLoc' = [sIndex |-> I.sIndex, cIndex |-> I.cIndex]
    /\ lineNo' = I.lineNo
    /\ buf' = I.buf
    /\ delivered' = delivered \o I.buf
    /\ reading' = IF I.overrun THEN "undefined"
                  ELSE IF I.buf = <<>> THEN "eof" ELSE "open"
    /\ UNCHANGED <<mString, firstLine, ppVars, rrVars, vlVars, paVars, jitVars, scVars, eglVars>>

Read ==
    /\ reading = "open"
    /\ \E maxSize \in MaxSizes : IStep(Input_read(IState, maxSize))

NextInput == Input_ctor \/ Read

SpecInput == Init /\ [][NextInput]_vars


(***************************************************************************)
(* A JITRoutine whose code asks for external symbols.                      *)
(***************************************************************************)
\* the names that the code of a routine may ask for
SymbolNames ==
    {<<"s", "i", "n", "f">>, <<"_", "s", "i", "n", "f">>, <<"_", "_", "s", "i", "n">>,
     <<"s", "i", "n", "f", "_">>, <<"n", "o", "p">>, <<"_", "p", "u", "t", "s">>,
     <<"a", "t", "o", "m", "i", "c", "_", "l", "o", "a", "d">>,
     <<"a", "t", "o", "m", "i", "c", "l", "o", "a", "d">>,
     <<"s", "y", "s", "t", "e", "m">>, <<"_", "m", "e", "m", "c", "p", "y">>,
     <<"_">>, <<>>}

\* JITRoutine::JITRoutine, in either build
JITRoutine_ctor ==
    /\ jit = "none"
    /\ jit' = "built"
    /\ jitDisableDebug' \in BOOLEAN
    /\ UNCHANGED <<jitSymbols, ppVars, rrVars, vlVars, paVars, inVars, scVars, eglVars>>

\* the linker asks the routine's resolver for a symbol
LookupSymbol ==
    /\ jit = "built" /\ Len(jitSymbols) < MaxSymbols
    /\ \E name \in SymbolNames : \E r \in resolveExternalSymbol(name, jitDisableDebug) :
           /\ jit' = IF r.aborted THEN "aborted" ELSE jit
           /\ jitSymbols' = IF r.aborted THEN jitSymbols
                            ELSE Append(jitSymbols, JITRoutine_resolve(name, r))
    /\ UNCHANGED <<jitDisableDebug, ppVars, rrVars, vlVars, paVars, inVars, scVars, eglVars>>

NextJIT == JITRoutine_ctor \/ LookupSymbol

SpecJIT == Init /\ [][NextJIT]_vars


(***************************************************************************)
(* SwiftConfig: the calling thread, the server thread, and a client of the *)
(* server.  A step is one statement of a thread, or one test of a loop.    *)
(***************************************************************************)
Quality == 0..MaxQuality

SOthers == <<ppVars, rrVars, vlVars, paVars, inVars, jitVars, eglVars>>

\* SwiftConfig::SwiftConfig: readConfiguration, and unless the server is
\* disabled writeConfiguration and createServer
SwiftConfig_ctor ==
    /\ caller = "none"
    /\ \E disableServer \in BOOLEAN, t, m \in Quality :
           /\ config' = Configuration(t, m)
           /\ receiveBuffer' = ~disableServer
           /\ listenSocket' = ~disableServer
           /\ serverThread' = IF disableServer THEN "none" ELSE "readConfiguration"
    /\ terminate' = FALSE
    /\ caller' = "idle"
    /\ UNCHANGED <<configuration, criticalSection, newConfig, clientSocket, network,
                   bytesReceived, request, SOthers>>

\* a statement of the calling thread that changes nothing else
CallerGoes(from, to) ==
    /\ caller = from
    /\ caller' = to
    /\ UNCHANGED <<config, terminate, newConfig, receiveBuffer, listenSocket, serverThread,
                   clientSocket, network, bytesReceived, request, SOthers>>

\* getConfiguration is called
Call_getConfiguration ==
    /\ CallerGoes("idle", "lock")
    /\ UNCHANGED <<configuration, criticalSection>>

\* criticalSection.lock()
getConfiguration_lock ==
    /\ criticalSection = "free"
    /\ criticalSection' = "caller"
    /\ CallerGoes("lock", "copy")
    /\ UNCHANGED configuration

\* configuration = config, a member at a time
getConfiguration_copy ==
    \/ /\ CallerGoes("copy", "copy more")
       /\ configuration' =
              [configuration EXCEPT !.textureSampleQuality = config.textureSampleQuality]
       /\ UNCHANGED criticalSection
    \/ /\ CallerGoes("copy more", "unlock")
       /\ configuration' = [configuration EXCEPT !.mipmapQuality = config.mipmapQuality]
       /\ UNCHANGED criticalSection

\* criticalSection.unlock()
getConfiguration_unlock ==
    /\ CallerGoes("unlock", "idle")
    /\ criticalSection' = "free"
    /\ UNCHANGED configuration

\* destroyServer up to the join: terminate = true if there is a server
destroyServer ==
    /\ caller = "idle"
    /\ caller' = IF receiveBuffer THEN "join" ELSE "destroyed"
    /\ terminate' = (terminate \/ receiveBuffer)
    /\ UNCHANGED <<config, configuration, criticalSection, newConfig, receiveBuffer,
                   listenSocket, serverThread, clientSocket, network, bytesReceived,
                   request, SOthers>>

\* serverThread->join() returns once serverRoutine has returned; then the
\* thread, the socket and the buffer are deleted
destroyServer_join ==
    /\ caller = "join"
    /\ serverThread = "returned"
    /\ caller' = "destroyed"
    /\ serverThread' = "none"
    /\ listenSocket' = FALSE
    /\ receiveBuffer' = FALSE
    /\ UNCHANGED <<config, configuration, criticalSection, terminate, newConfig,
                   clientSocket, network, bytesReceived, request, SOthers>>

\* a statement of the server thread that changes nothing else
ServerGoes(from, to) ==
    /\ serverThread = from
    /\ serverThread' = to
    /\ UNCHANGED <<configuration, terminate, receiveBuffer, listenSocket, caller, SOthers>>

\* readConfiguration at the start of serverLoop: the settings of the file,
\* a member at a time, and newConfig
serverLoop_readConfiguration ==
    \/ /\ ServerGoes("readConfiguration", "readConfiguration more")
       /\ \E t \in Quality : config' = [config EXCEPT !.textureSampleQuality = t]
       /\ UNCHANGED <<criticalSection, newConfig, clientSocket, network, bytesReceived,
                      request>>
    \/ /\ ServerGoes("readConfiguration more", "while")
       /\ \E m \in Quality : config' = [config EXCEPT !.mipmapQuality = m]
       /\ newConfig' \in BOOLEAN
       /\ UNCHANGED <<criticalSection, clientSocket, network, bytesReceived, request>>

\* while(!terminate)
serverLoop_while ==
    /\ ServerGoes("while", IF terminate THEN "returned" ELSE "select")
    /\ UNCHANGED <<config, criticalSection, newConfig, clientSocket, network,
                   bytesReceived, request>>

\* if(listenSocket->select(100000)): a connection is waiting, or the time
\* is over
serverLoop_select ==
    /\ ServerGoes("select", IF clientSocket = "pending" THEN "accept" ELSE "while")
    /\ UNCHANGED <<config, criticalSection, newConfig, clientSocket, network,
                   bytesReceived, request>>

\* clientSocket = listenSocket->accept(); bytesReceived = 1
serverLoop_accept ==
    /\ ServerGoes("accept", "while received")
    /\ clientSocket' = "open"
    /\ bytesReceived' = 1
    /\ UNCHANGED <<config, criticalSection, newConfig, network, request>>

\* while(bytesReceived > 0 && !terminate), and delete clientSocket after it
serverLoop_whileReceived ==
    /\ IF bytesReceived > 0 /\ ~terminate
       THEN ServerGoes("while received", "client select") /\ UNCHANGED <<clientSocket, network>>
       ELSE /\ ServerGoes("while received", "while")
            /\ clientSocket' = "none"
            /\ network' = <<>>
    /\ UNCHANGED <<config, criticalSection, newConfig, bytesReceived, request>>

\* if(clientSocket->select(10)): a packet or the client's close is there to
\* be received, or the time is over
serverLoop_clientSelect ==
    /\ ServerGoes("client select",
                  IF network # <<>> \/ clientSocket = "closed" THEN "receive"
                  ELSE "while received")
    /\ UNCHANGED <<config, criticalSection, newConfig, clientSocket, network,
                   bytesReceived, request>>

\* where respond goes first for a request
respond(r) ==
    CASE r = "GET" -> "page"
      [] r \in {"POST data", "POST"} -> "lock"
      [] OTHER -> "while received"

\* bytesReceived = clientSocket->receive(...), and respond if it is positive
serverLoop_receive ==
    /\ serverThread = "receive"
    /\ IF network # <<>>
       THEN /\ ServerGoes("receive", respond(Head(network)))
            /\ request' = Head(network)
            /\ network' = Tail(network)
            /\ bytesReceived' = 1
       ELSE /\ ServerGoes("receive", "while received")
            /\ bytesReceived' = 0
            /\ UNCHANGED <<request, network>>
    /\ UNCHANGED <<config, criticalSection, newConfig, clientSocket>>

\* respond to a POST: criticalSection.lock(), and the test for the data
respond_lock ==
    /\ criticalSection = "free"
    /\ criticalSection' = "server"
    /\ ServerGoes("lock", IF request = "POST data" THEN "parsePost" ELSE "receive post")
    /\ UNCHANGED <<config, newConfig, clientSocket, network, bytesReceived, request>>

\* the POST's data in the next packet: clientSocket->receive(...), which
\* waits until the client has sent a packet or has closed the connection
respond_receive ==
    /\ serverThread = "receive post"
    /\ network # <<>> \/ clientSocket = "closed"
    /\ IF network # <<>>
       THEN ServerGoes("receive post", "parsePost") /\ network' = Tail(network)
       ELSE ServerGoes("receive post", "writeConfiguration") /\ UNCHANGED network
    /\ UNCHANGED <<config, criticalSection, newConfig, clientSocket, bytesReceived,
                   request>>

\* parsePost: the settings that the data names
respond_parsePost ==
    /\ ServerGoes("parsePost", "writeConfiguration")
    /\ \E t, m \in Quality : config' = Configuration(t, m)
    /\ UNCHANGED <<criticalSection, newConfig, clientSocket, network, bytesReceived,
                   request>>

\* writeConfiguration(); newConfig = true
respond_writeConfiguration ==
    /\ ServerGoes("writeConfiguration", "unlock")
    /\ newConfig' = TRUE
    /\ UNCHANGED <<config, criticalSection, clientSocket, network, bytesReceived,
                   request>>

\* criticalSection.unlock()
respond_unlock ==
    /\ ServerGoes("unlock", "page")
    /\ criticalSection' = "free"
    /\ UNCHANGED <<config, newConfig, clientSocket, network, bytesReceived, request>>

\* send(clientSocket, OK, page())
respond_page ==
    /\ ServerGoes("page", "while received")
    /\ UNCHANGED <<config, criticalSection, newConfig, clientSocket, network,
                   bytesReceived, request>>

\* what a client does
ClientGoes ==
    UNCHANGED <<config, configuration, criticalSection, terminate, newConfig,
                receiveBuffer, listenSocket, serverThread, caller, bytesReceived,
                request, SOthers>>

Client_connect ==
    /\ listenSocket /\ clientSocket = "none"
    /\ clientSocket' = "pending"
    /\ UNCHANGED network
    /\ ClientGoes

Client_send ==
    /\ clientSocket \in {"pending", "open"}
    /\ Len(network) < MaxPackets
    /\ \E packet \in Packets : network' = Append(network, packet)
    /\ UNCHANGED clientSocket
    /\ ClientGoes

Client_close ==
    /\ clientSocket = "open"
    /\ clientSocket' = "closed"
    /\ UNCHANGED network
    /\ ClientGoes

CallerStep ==
    \/ Call_getConfiguration \/ getConfiguration_lock \/ getConfiguration_copy
    \/ getConfiguration_unlock \/ destroyServer \/ destroyServer_join

ServerStep ==
    \/ serverLoop_readConfiguration \/ serverLoop_while \/ serverLoop_select
    \/ serverLoop_accept \/ serverLoop_whileReceived \/ serverLoop_clientSelect
    \/ serverLoop_receive \/ respond_lock \/ respond_receive \/ respond_parsePost
    \/ respond_writeConfiguration \/ respond_unlock \/ respond_page

ClientStep == Client_connect \/ Client_send \/ Client_close

NextConfig == SwiftConfig_ctor \/ CallerStep \/ ServerStep \/ ClientStep

SpecConfig == Init /\ [][NextConfig]_vars

\* Each thread goes on while it can; a client owes nothing.
SpecConfigFair == SpecConfig /\ WF_vars(CallerStep) /\ WF_vars(ServerStep)


(***************************************************************************)
(* egl::Display: calls that create and destroy surfaces.                   *)
(***************************************************************************)
Windows == 1..MaxWindows

AttribLists ==
    {AttribList(TRUE, <<>>), AttribList(FALSE, <<>>),
     AttribList(FALSE, <<<<"EGL_RENDER_BUFFER", "EGL_BACK_BUFFER">>>>),
     AttribList(FALSE, <<<<"EGL_RENDER_BUFFER", "EGL_SINGLE_BUFFER">>>>),
     AttribList(FALSE, <<<<"EGL_RENDER_BUFFER", "EGL_NONE">>>>),
     AttribList(FALSE, <<<<"EGL_RENDER_BUFFER", "EGL_BACK_BUFFER">>,
                         <<"EGL_VG_COLORSPACE", "EGL_NONE">>>>),
     AttribList(FALSE, <<<<"EGL_VG_ALPHA_FORMAT", "EGL_NONE">>>>),
     AttribList(FALSE, <<<<"EGL_WIDTH", "EGL_NONE">>>>)}

DState == [error |-> currentError, returned |-> eglReturned, set |-> mSurfaceSet]

\* the address of a new surface object
FreeIds == (1..MaxSurfaces) \ {surface.id : surface \in mSurfaceSet}

DStep(D, call) ==
    /\ mSurfaceSet' = D.set
    /\ currentError' = D.error
    /\ eglReturned' = D.returned
    /\ eglCall' = call
    /\ UNCHANGED <<currentDrawSurface, currentReadSurface, ppVars, rrVars, vlVars, paVars,
                   inVars, jitVars, scVars>>

Call_createWindowSurface ==
    \E window \in Windows, attribList \in AttribLists, id \in FreeIds,
       initialized \in BOOLEAN :
        DStep(createWindowSurface(DState, window, attribList, id, initialized),
              [name |-> "createWindowSurface", window |-> window,
               attribList |-> attribList, surface |-> 0])

Call_createPBufferSurface ==
    \E id \in FreeIds, initialized \in BOOLEAN :
        DStep(createPBufferSurface(DState, id, initialized),
              [name |-> "createPBufferSurface", window |-> 0,
               attribList |-> AttribList(TRUE, <<>>), surface |-> 0])

\* a surface of the display becomes the thread's draw and read surface
Call_makeCurrent ==
    /\ \E surface \in mSurfaceSet :
           /\ currentDrawSurface' = surface.id
           /\ currentReadSurface' = surface.id
           /\ eglCall' = [name |-> "makeCurrent", window |-> 0,
                          attribList |-> AttribList(TRUE, <<>>), surface |-> surface.id]
    /\ UNCHANGED <<mSurfaceSet, currentError, eglReturned, ppVars, rrVars, vlVars, paVars,
                   inVars, jitVars, scVars>>

\* Display::destroySurface, for a surface of the display
Call_destroySurface ==
    /\ \E surface \in mSurfaceSet :
           /\ mSurfaceSet' = mSurfaceSet \ {surface}
           /\ currentDrawSurface' =
                  IF surface.id = currentDrawSurface THEN 0 ELSE currentDrawSurface
           /\ currentReadSurface' =
                  IF surface.id = currentReadSurface THEN 0 ELSE currentReadSurface
           /\ eglCall' = [name |-> "destroySurface", window |-> 0,
                          attribList |-> AttribList(TRUE, <<>>), surface |-> surface.id]
    /\ UNCHANGED <<currentError, eglReturned, ppVars, rrVars, vlVars, paVars, inVars,
                   jitVars, scVars>>

NextDisplay ==
    \/ Call_createWindowSurface \/ Call_createPBufferSurface
    \/ Call_makeCurrent \/ Call_destroySurface

SpecDisplay == Init /\ [][NextDisplay]_vars


(***************************************************************************)
(* Properties.                                                             *)
(***************************************************************************)
\* The directive the current step parsed, and the line after its name
InputDirective ==
    IF input.hash /\ input.toks # <<>> THEN getDirective(input.toks[1])
    ELSE "DIRECTIVE_NONE"
InputLine == IF input.toks = <<>> THEN <<>> ELSE Tail(input.toks)
TopBlock == mConditionalStack[Len(mConditionalStack)]
ExpressionDiagnostics ==
    {"PP_INVALID_EXPRESSION", "PP_CONDITIONAL_UNEXPECTED_TOKEN", "PP_UNEXPECTED_TOKEN",
     "PP_INTEGER_OVERFLOW", "PP_DIVISION_BY_ZERO"}

\* C1: a #elif of a conditional block that is not skipped as a whole, has
\* seen no #else and has had a group whose condition was true marks its
\* group as skipped, and its expression is not evaluated: nothing is handed
\* to the macro expander and the expression parser, and no diagnostic about
\* the expression is reported for the line.
ElifAfterTrueGroupIsNotEvaluated ==
    [][(/\ mConditionalStack # <<>>
        /\ ~TopBlock.skipBlock
        /\ ~TopBlock.foundElseGroup
        /\ TopBlock.foundValidGroup
        /\ InputDirective' = "DIRECTIVE_ELIF")
       => (/\ TopBlock'.skipGroup
           /\ ~evald'
           /\ diags' \cap ExpressionDiagnostics = {}
           /\ Len(mConditionalStack') = Len(mConditionalStack))]_vars

\* a #elif with the ill-formed expression "1 1" after a true group: the
\* group is skipped, and nothing was evaluated or reported
ElifAfterTrueGroupReached ==
    /\ InputDirective = "DIRECTIVE_ELIF"
    /\ InputLine = <<T1, T1>>
    /\ mConditionalStack # <<>>
    /\ ~TopBlock.skipBlock /\ ~TopBlock.foundElseGroup /\ TopBlock.foundValidGroup
    /\ TopBlock.skipGroup
    /\ ~evald
    /\ diags = {}

\* C2: a diagnostic does not stop preprocessing.  Once a diagnostic has
\* been reported, each token the tokenizer delivers outside a skipped group
\* is what lex returns for it (one token per delivery, hence in input
\* order), and lex returns the end-of-input token when, and only when, the
\* tokenizer delivered it.
DiagnosticsDoNotStopLex ==
    /\ (errorReported /\ ~input.hash /\ ~isEOD(input.tok) /\ input # NoItem
            /\ ~skipping(PState))
           => token = input.tok
    /\ (errorReported /\ input.eod = "LAST") => token.type = "LAST"
    /\ token.type = "LAST" => input.eod = "LAST"

\* a token returned after a directive reported an error
TokenReturnedAfterError ==
    /\ errorReported
    /\ diags = {}
    /\ ~input.hash /\ input.tok = Id(sA)
    /\ token = Id(sA)

\* The name token of the #define or #undef the current step parsed
InputName == IF InputLine = <<>> THEN NoToken ELSE InputLine[1]
\* The macro's definition, without the count of its invocations in progress
Definition(macro) == [macro EXCEPT !.expansionCount = 0]

\* C6: a #define or #undef keeps every predefined macro in the table, with
\* the definition it had, and one that names a predefined macro reports
\* that and leaves the whole table as it was.
PredefinedMacrosAreKept ==
    [][InputDirective' \in {"DIRECTIVE_DEFINE", "DIRECTIVE_UNDEF"} =>
         /\ \A n \in DOMAIN mMacroSet :
               mMacroSet[n].predefined =>
                   /\ n \in DOMAIN mMacroSet'
                   /\ Definition(mMacroSet'[n]) = Definition(mMacroSet[n])
         /\ (InputName'.type = "IDENTIFIER" /\ isMacroPredefined(InputName'.text, mMacroSet))
               => /\ mMacroSet' = mMacroSet
                  /\ diags' = {IF InputDirective' = "DIRECTIVE_DEFINE"
                               THEN "PP_MACRO_PREDEFINED_REDEFINED"
                               ELSE "PP_MACRO_PREDEFINED_UNDEFINED"}]_vars

\* "#undef __VERSION__" after "#version 300 es": reported, and __VERSION__
\* is still 300
UndefOfPredefinedReached ==
    /\ InputDirective = "DIRECTIVE_UNDEF"
    /\ InputName = Id(s__VERSION__)
    /\ diags = {"PP_MACRO_PREDEFINED_UNDEFINED"}
    /\ s__VERSION__ \in DOMAIN mMacroSet
    /\ mMacroSet[s__VERSION__].predefined
    /\ mMacroSet[s__VERSION__].replacements = <<Tok("CONST_INT", <<"3", "0", "0">>, FALSE)>>

\* C7: a #undef that names a macro with invocations in progress
\* (expansionCount > 0) reports a diagnostic and leaves the macro in the
\* table.
UndefWhileInvokedIsRefused ==
    [][(/\ InputDirective' = "DIRECTIVE_UNDEF"
        /\ InputName'.type = "IDENTIFIER"
        /\ InputName'.text \in DOMAIN mMacroSet
        /\ mMacroSet[InputName'.text].expansionCount > 0)
       => (/\ diags' # {}
           /\ InputName'.text \in DOMAIN mMacroSet'
           /\ mMacroSet'[InputName'.text] = mMacroSet[InputName'.text])]_vars

\* "#undef A" while A is being expanded
UndefWhileInvokedReached ==
    /\ InputDirective = "DIRECTIVE_UNDEF"
    /\ InputName = Id(sA)
    /\ diags = {"PP_MACRO_UNDEFINED_WHILE_INVOKED"}
    /\ sA \in DOMAIN mMacroSet
    /\ mMacroSet[sA].expansionCount > 0

\* The replacement list a well-formed #define line gives its macro: what
\* follows the name, or the parameter list's ')', without the leading space
\* of its first token
RECURSIVE AfterParameters(_, _)
AfterParameters(line, i) ==
    IF i > Len(line) THEN i
    ELSE IF line[i].type = ")" THEN i + 1
    ELSE AfterParameters(line, i + 1)
BodyOf(line) ==
    LET j == IF Len(line) >= 2 /\ line[2].type = "(" /\ ~line[2].sp
             THEN AfterParameters(line, 3) ELSE 2
        body == SubSeq(line, j, Len(line))
    IN  IF body = <<>> THEN body ELSE <<[body[1] EXCEPT !.sp = FALSE]>> \o Tail(body)
SyntaxDiagnostics == {"PP_UNEXPECTED_TOKEN", "PP_MACRO_DUPLICATE_PARAMETER_NAMES"}

\* C8: a #define of a name that is defined and not predefined leaves the
\* macro table as it was; a well-formed one is accepted without a
\* redefinition error exactly when its body equals the old body token for
\* token, and reports PP_MACRO_REDEFINED otherwise.  Nothing else is
\* reported, but for the warning that every #define of a name with a double
\* underscore gets.
RedefinitionNeedsEqualBody ==
    [][(/\ InputDirective' = "DIRECTIVE_DEFINE"
        /\ InputName'.type = "IDENTIFIER"
        /\ InputName'.text \in DOMAIN mMacroSet
        /\ ~mMacroSet[InputName'.text].predefined)
       => (/\ mMacroSet' = mMacroSet
           /\ diags' \cap SyntaxDiagnostics = {} =>
                 /\ ("PP_MACRO_REDEFINED" \notin diags') <=>
                        (BodyOf(InputLine') = mMacroSet[InputName'.text].replacements)
                 /\ diags' \ {"PP_MACRO_REDEFINED"} =
                        IF hasDoubleUnderscores(InputName'.text)
                        THEN {"PP_WARNING_MACRO_NAME_RESERVED"} ELSE {})]_vars

\* "#define A 0" while A is defined as 1: reported, A is still 1
RedefinitionReached ==
    /\ InputDirective = "DIRECTIVE_DEFINE"
    /\ InputLine = <<Id(sA), T0>>
    /\ diags = {"PP_MACRO_REDEFINED"}
    /\ sA \in DOMAIN mMacroSet
    /\ mMacroSet[sA].replacements = <<[T1 EXCEPT !.sp = FALSE]>>

\* C9: in the expression of a #if or #elif, "defined X" and "defined(X)"
\* stand for 1 when X is in the macro table and for 0 when it is not, X
\* itself is not expanded: the group is taken exactly when X is defined,
\* whatever X is defined as, and the line reports nothing.
DefinedForms == {<<Id(kDefined), Id(sA)>>, <<Id(kDefined), LP, Id(sA), RP>>}
DefinedIsResolvedBeforeExpansion ==
    (evald /\ InputDirective \in {"DIRECTIVE_IF", "DIRECTIVE_ELIF"}
           /\ InputLine \in DefinedForms)
       => /\ mConditionalStack # <<>>
          /\ TopBlock.skipGroup = (sA \notin DOMAIN mMacroSet)
          /\ TopBlock.foundValidGroup = (sA \in DOMAIN mMacroSet)
          /\ diags = {}

\* "#if defined(A)" with A defined as 0: the group is taken
DefinedOfMacroDefinedAsZero ==
    /\ evald
    /\ InputDirective = "DIRECTIVE_IF"
    /\ InputLine = <<Id(kDefined), LP, Id(sA), RP>>
    /\ sA \in DOMAIN mMacroSet
    /\ mMacroSet[sA].replacements = <<[T0 EXCEPT !.sp = FALSE]>>
    /\ ~TopBlock.skipGroup

\* The instructions that end a basic block
Terminators == {"ret", "br", "condbr", "switch", "unreachable"}
Branches == {"br", "condbr"}
EmittedOps(ops) == {i \in 1..Len(emitted) : emitted[i].op \in ops}
\* The steps of the control-flow constructs
BoundarySteps ==
    {"For_setup", "For_test", "For_end", "If", "Else", "~IfElseData", "Do", "Until"}

\* C3: a store to a variable that is in the unmaterialized set replaces the
\* variable's pending value only: the step emits no store instruction for a
\* variable that is in the set.
StoreToUnmaterializedEmitsNoStore ==
    op = "storeValue" =>
        \A i \in EmittedOps({"store"}) : emitted[i].var \notin unmaterializedVariables

\* C4: each step of If/Else, For, While and Do/Until that makes a block
\* boundary leaves the unmaterialized set empty, has given each variable
\* that was in the set a stack address whose slot holds the value last
\* stored to the variable (the pending value is gone), and has emitted the
\* allocations and stores of that before its first branch.
BoundariesMaterialize ==
    [][op' \in BoundarySteps =>
         /\ unmaterializedVariables' = {}
         /\ \A v \in unmaterializedVariables :
               /\ address'[v] # 0
               /\ rvalue'[v] = 0
               /\ slot'[v] = lastStored[v]
               /\ lastStored'[v] = lastStored[v]
         /\ \A i, j \in 1..Len(emitted') :
               (emitted'[i].op \in {"alloca", "store"} /\ emitted'[j].op \in Branches)
                   => i < j]_vars

\* the test of a loop met a variable with a pending value: the variable
\* was allocated, the value stored, and then the branch emitted
BoundaryMaterialized ==
    /\ op = "For_test"
    /\ \E v \in live :
          /\ emitted = <<[op |-> "alloca", var |-> v], [op |-> "store", var |-> v],
                         [op |-> "condbr", var |-> <<"body", 1>>]>>
          /\ address[v] # 0
          /\ slot[v] = lastStored[v] /\ lastStored[v] # 0
    /\ unmaterializedVariables = {}

\* C5: a step that emits a terminator leaves no variable in the
\* unmaterialized set.
TerminatorLeavesSetEmpty ==
    EmittedOps(Terminators) # {} => unmaterializedVariables = {}

\* C10: a #version directive that the parser processes (one outside a
\* skipped group) after a token other than a directive's has been seen
\* reports PP_VERSION_NOT_FIRST_STATEMENT and is not applied: handleVersion
\* is not called, and mShaderVersion and the macro table stay as they were.
VersionAfterTokenIsRefused ==
    [][(/\ mSeenNonPreprocessorToken
        /\ ~skipping(PState)
        /\ InputDirective' = "DIRECTIVE_VERSION")
       => (/\ "PP_VERSION_NOT_FIRST_STATEMENT" \in diags'
           /\ calls' = {}
           /\ mShaderVersion' = mShaderVersion
           /\ mMacroSet' = mMacroSet)]_vars

\* "#version 300 es" after a token: reported, the version is still 100
VersionAfterTokenReached ==
    /\ mSeenNonPreprocessorToken
    /\ InputDirective = "DIRECTIVE_VERSION"
    /\ InputLine = <<Num(<<"3", "0", "0">>), Id(ses)>>
    /\ diags = {"PP_VERSION_NOT_FIRST_STATEMENT"}
    /\ calls = {}
    /\ mShaderVersion = 100

\* The number of a #version line is 300 or greater (a number too large for
\* an int included), and "es" follows it
VersionNumberAtLeast300(line) ==
    /\ line # <<>>
    /\ line[1].type = "CONST_INT"
    /\ (~iValue(line[1].text).ok \/ iValue(line[1].text).v >= 300)
FollowedByEs(line) ==
    /\ Len(line) >= 2
    /\ line[2].type = "IDENTIFIER"
    /\ line[2].text = ses
VersionApplied == \E c \in calls : c.h = "handleVersion"

\* C11: a #version directive that the parser processes and whose number is
\* 300 or greater is applied (handleVersion called, mShaderVersion set to
\* the number) only if "es" follows the number and the directive is on
\* line 1; when it is not applied a diagnostic is reported and
\* mShaderVersion and the macro table stay as they were.
Version300NeedsEsOnLine1 ==
    [][(/\ InputDirective' = "DIRECTIVE_VERSION"
        /\ ~skipping(PState)
        /\ VersionNumberAtLeast300(InputLine'))
       => IF VersionApplied'
          THEN /\ FollowedByEs(InputLine')
               /\ lineNumber = 1
               /\ mShaderVersion' = iValue(InputLine'[1].text).v
               /\ calls' = {[h |-> "handleVersion", arg |-> mShaderVersion']}
          ELSE /\ diags' # {}
               /\ mShaderVersion' = mShaderVersion
               /\ mMacroSet' = mMacroSet]_vars

\* "#version 300 es" as the first statement but on line 2: reported, not
\* applied
Version300OnLine2Reached ==
    /\ InputDirective = "DIRECTIVE_VERSION"
    /\ InputLine = <<Num(<<"3", "0", "0">>), Id(ses)>>
    /\ lineNumber = 3
    /\ diags = {"PP_VERSION_NOT_FIRST_LINE_ESSL3"}
    /\ ~VersionApplied
    /\ mShaderVersion = 100

\* C12: "#version 310 es" on line 1, the first statement of the source,
\* gets the diagnostic that the version is not supported: the parser
\* itself reports nothing and hands 310 to the directive handler, which
\* reports it.
Version310IsNotSupported ==
    [][(/\ InputDirective' = "DIRECTIVE_VERSION"
        /\ InputLine' = <<Num(<<"3", "1", "0">>), Id(ses)>>
        /\ lineNumber = 1
        /\ ~mPastFirstStatement
        /\ ~skipping(PState))
       => (/\ calls' = {[h |-> "handleVersion", arg |-> 310]}
           /\ diags' = {"VERSION_NOT_SUPPORTED"})]_vars

\* "#version 310 es" on line 1: handed to the handler and reported
Version310OnLine1Reached ==
    /\ InputDirective = "DIRECTIVE_VERSION"
    /\ InputLine = <<Num(<<"3", "1", "0">>), Id(ses)>>
    /\ lineNumber = 2
    /\ calls = {[h |-> "handleVersion", arg |-> 310]}
    /\ diags = {"VERSION_NOT_SUPPORTED"}

(***************************************************************************)
(* ValidateLimitations.                                                    *)
(***************************************************************************)
\* The canonical form of a loop, as the language's appendix A states it:
\*   for(T index = C; index REL C; STEP),  T one of int, uint, float,
\*   STEP one of ++index, --index, index++, index--, index += C, index -= C
CanonicalFor(node) ==
    /\ node.loopType = "ELoopFor"
    /\ node.init.present /\ node.init.declaration /\ node.init.size = 1
    /\ node.init.initialize /\ node.init.left.form = "symbol"
    /\ node.init.left.symbol.basicType \in {"EbtInt", "EbtUInt", "EbtFloat"}
    /\ node.init.right.form = "constant"
    /\ node.cond.present /\ node.cond.binary
    /\ node.cond.left = node.init.left
    /\ node.cond.op \in {"EOpLessThan", "EOpLessThanEqual", "EOpGreaterThan",
                         "EOpGreaterThanEqual", "EOpEqual", "EOpNotEqual"}
    /\ node.cond.right.form = "constant"
    /\ node.expr.present
    /\ node.expr.operand = node.init.left
    /\ \/ /\ node.expr.unary
          /\ node.expr.op \in {"EOpPreIncrement", "EOpPreDecrement",
                               "EOpPostIncrement", "EOpPostDecrement"}
       \/ /\ node.expr.binary
          /\ node.expr.op \in {"EOpAddAssign", "EOpSubAssign"}
          /\ node.expr.right.form = "constant"

\* C13 (as amended): a loop that the validator visits is accepted without
\* an error exactly when it is a for loop of the canonical form; every
\* other loop it visits gets at least one error.
VisitedLoopAcceptedIffCanonical ==
    (lastNode.node = "loop" /\ lastVisited) =>
        ((reported = {}) <=> CanonicalFor(lastNode))

\* a loop inside the body of another, not of the canonical form, is
\* visited and gets an error
NestedLoopRefused ==
    /\ lastNode.node = "loop" /\ lastVisited /\ mLoopStack # <<>>
    /\ ~CanonicalFor(lastNode) /\ reported # {}

\* C13 as stated: every loop of the tree that is not of the canonical form
\* gets an error, the loops inside a refused loop too.
EveryLoopAcceptedIffCanonical ==
    lastNode.node = "loop" => ((reported = {}) <=> CanonicalFor(lastNode))

\* the indices of the validated loops whose bodies hold the traversal's
\* position, and the symbol an operation of the last step writes to
ValidatedIndices == {path[k].index : k \in {j \in DOMAIN path : path[j].entered}}
ModifiesIndex ==
    \/ /\ lastNode.node = "unary"
       /\ lastNode.op \in {"EOpPostIncrement", "EOpPostDecrement",
                           "EOpPreIncrement", "EOpPreDecrement"}
       /\ lastNode.operand.form = "symbol"
       /\ lastNode.operand.symbol \in ValidatedIndices
    \/ /\ lastNode.node = "binary"
       /\ lastNode.op \in {"EOpAssign", "EOpAddAssign", "EOpSubAssign", "EOpMulAssign"}
       /\ lastNode.left.form = "symbol"
       /\ lastNode.left.symbol \in ValidatedIndices
AssignmentReported ==
    "Loop index cannot be statically assigned to within the body of the loop" \in reported

\* C14 (as amended): inside the body of a validated for loop, every
\* state-modifying operation that the validator visits and whose target is
\* the index of that loop or of an enclosing loop is reported as an error.
VisitedIndexModificationReported ==
    (ModifiesIndex /\ lastVisited) => AssignmentReported

\* in the body of the inner of two validated loops, the index of the outer
\* loop is written to and the error is reported
OuterIndexModifiedInInnerLoop ==
    /\ ModifiesIndex /\ lastVisited /\ Len(mLoopStack) = 2
    /\ lastNode.node = "binary" /\ lastNode.left.symbol.id = mLoopStack[1].id
    /\ mLoopStack[2].id # mLoopStack[1].id
    /\ AssignmentReported

\* C14 as stated: every such operation inside the body is reported, those
\* inside a refused loop of that body too.
EveryIndexModificationReported == ModifiesIndex => AssignmentReported

\* the call of the last step passes the index of a validated loop around
\* it for a parameter that the function declares out or inout
PassesIndexForOutParameter ==
    /\ lastNode.node = "aggregate" /\ lastNode.op = "EOpFunctionCall"
    /\ \E k \in DOMAIN lastNode.params :
           /\ lastNode.params[k].form = "symbol"
           /\ lastNode.params[k].symbol \in ValidatedIndices
           /\ lastNode.function[k] \in {"EvqOut", "EvqInOut"}
ArgumentReported ==
    "Loop index cannot be used as argument to a function out or inout parameter" \in reported

\* C15 (as amended): inside a loop body, a function call that the validator
\* visits and that passes a loop index for an out or inout parameter is
\* reported as an error.
VisitedCallWithIndexForOutReported ==
    (PassesIndexForOutParameter /\ lastVisited) => ArgumentReported

\* a call with one argument, a loop index for an inout parameter, is
\* reported
IndexPassedForInOutReported ==
    /\ PassesIndexForOutParameter /\ lastVisited /\ ArgumentReported
    /\ lastNode.function = <<"EvqInOut">>

\* C15 as stated: every such call inside a loop body is reported, those
\* inside a refused loop of that body too.
EveryCallWithIndexForOutReported == PassesIndexForOutParameter => ArgumentReported

\* the last step visited an index into an array of samplers by the integer
\* index of a validated loop around it
SamplerArrayIndexedByIntLoopIndex ==
    /\ lastNode.node = "binary" /\ lastVisited
    /\ lastNode.op \in {"EOpIndexDirect", "EOpIndexIndirect"}
    /\ lastNode.left.symbol.basicType = "EbtSampler2D"
    /\ lastNode.right.form = "symbol"
    /\ lastNode.right.symbol \in ValidatedIndices
    /\ lastNode.right.symbol.basicType \in {"EbtInt", "EbtUInt"}

\* C16: if a loop's index has integer type and is used as a sampler-array
\* index inside the loop's body, validation sets the unroll flag of that
\* loop.
SamplerIndexMarksLoopForUnroll ==
    SamplerArrayIndexedByIntLoopIndex =>
        \E k \in DOMAIN mLoopStack :
            mLoopStack[k].id = lastNode.right.symbol.id /\ mLoopStack[k].unroll

\* The last step came to an indexing node; its index is a constant-index-
\* expression: it names nothing but constants and, inside loops, the
\* indices of the validated loops around it.
IndexingNode ==
    lastNode.node = "binary" /\ lastNode.op \in {"EOpIndexDirect", "EOpIndexIndirect"}
ConstantIndexExpression ==
    \A symbol \in lastNode.right.symbols :
        symbol.qualifier = "EvqConstExpr" \/ symbol \in ValidatedIndices
UniformInVertexShader ==
    mShaderType = GL_VERTEX_SHADER /\ lastNode.left.symbol.qualifier = "EvqUniform"
IndexReported == "Index expression must be constant" \in reported

\* C17 (as amended): an array index that the validator visits is accepted
\* only if it is a constant expression, which inside a loop may also refer
\* to the indices of the enclosing loops; every other index expression it
\* visits is reported as an error, unless the indexed operand is a uniform
\* in a vertex shader, where any index is accepted.
VisitedIndexConstantOrReported ==
    (IndexingNode /\ lastVisited) =>
        (IndexReported <=> (~ConstantIndexExpression /\ ~UniformInVertexShader))

\* in a fragment shader, inside a loop, a uniform array is indexed by an
\* expression that names a variable, and the error is reported
VariableIndexInFragmentShaderReported ==
    /\ IndexingNode /\ lastVisited /\ mLoopStack # <<>>
    /\ mShaderType = GL_FRAGMENT_SHADER /\ lastNode.left.symbol.qualifier = "EvqUniform"
    /\ ~ConstantIndexExpression /\ IndexReported

\* C17 as stated: every index expression that is not constant is reported,
\* whatever the shader type and the indexed operand.
EveryIndexConstantOrReported ==
    (IndexingNode /\ lastVisited) => (ConstantIndexExpression \/ reported # {})

(***************************************************************************)
(* TPoolAllocator.                                                         *)
(***************************************************************************)
\* C18: pop() releases exactly the memory allocated since the matching
\* push(): after it the in-use page list and the current page offset are
\* what they were before that push(), and the memory allocated earlier is
\* still in use.
PopRestoresStateBeforePush ==
    [][(called' = "pop" /\ pushed # <<>>) =>
           /\ inUseList' = pushed[Len(pushed)].inUseList
           /\ currentPageOffset' = pushed[Len(pushed)].currentPageOffset
           /\ InUse(inUseList', mStack') = pushed[Len(pushed)].inUse]_vars

\* a pop() matched by a push() has released a page to the free list and
\* has set the offset back into a page that holds earlier allocations
PopReleasedPageAndRestoredOffset ==
    /\ called = "pop" /\ pushed # <<>> /\ ~disablePoolAlloc
    /\ freeList # <<>> /\ currentPageOffset < pageSize
    /\ InUse(inUseList, mStack) # {}

\* C19: pop() with no preceding unmatched push() frees all the memory
\* allocated since the first allocation.
PopWithoutPushFreesAll ==
    [][(called' = "pop" /\ pushed = <<>>) => InUse(inUseList', mStack') = {}]_vars

(***************************************************************************)
(* pp::Input.                                                              *)
(***************************************************************************)
\* the characters given to the Input, and what they are with every line
\* continuation taken out: a backslash with the "\n", the "\r" "\n" or the
\* "\r" that follows it
RECURSIVE Concatenated(_)
Concatenated(string) ==
    IF string = <<>> THEN <<>> ELSE Head(string) \o Concatenated(Tail(string))
ContinuationAt(text) ==
    IF Len(text) < 2 \/ text[1] # "\\" THEN 0
    ELSE IF text[2] = "\n" THEN 2
    ELSE IF text[2] # "\r" THEN 0
    ELSE IF Len(text) >= 3 /\ text[3] = "\n" THEN 3
    ELSE 2
RECURSIVE Spliced(_)
Spliced(text) ==
    IF text = <<>> THEN <<>>
    ELSE IF ContinuationAt(text) > 0
    THEN Spliced(SubSeq(text, ContinuationAt(text) + 1, Len(text)))
    ELSE <<Head(text)>> \o Spliced(Tail(text))
RECURSIVE Continuations(_)
Continuations(text) ==
    IF text = <<>> THEN 0
    ELSE IF ContinuationAt(text) > 0
    THEN 1 + Continuations(SubSeq(text, ContinuationAt(text) + 1, Len(text)))
    ELSE Continuations(Tail(text))

\* C20: a backslash immediately followed by a line ending (LF, CR LF or a
\* lone CR) is removed together with that line ending and the line number
\* is incremented by exactly one for each such continuation; a backslash
\* that no line ending follows is delivered unchanged.  Checked when the
\* reader has come to the end of the input, for line numbers that do not
\* overflow.
ReadSplicesEveryContinuation ==
    (reading = "eof" /\ Continuations(Concatenated(mString)) <= INT_MAX - firstLine) =>
        /\ delivered = Spliced(Concatenated(mString))
        /\ lineNo = firstLine + Continuations(Concatenated(mString))

\* the characters that the Input has still to deliver
Remaining ==
    IF mReadLoc.sIndex >= Len(mString) THEN <<>>
    ELSE SubSeq(mString[mReadLoc.sIndex + 1], mReadLoc.cIndex + 1,
                Len(mString[mReadLoc.sIndex + 1]))
         \o Concatenated(SubSeq(mString, mReadLoc.sIndex + 2, Len(mString)))

\* C21: if a line continuation is encountered while the line number is
\* already INT_MAX, the read reports the end of the input, returning 0
\* characters, and the line number is not incremented.
ContinuationAtIntMaxIsEndOfInput ==
    [][(reading = "open" /\ lineNo = INT_MAX /\ ContinuationAt(Remaining) > 0) =>
           (buf' = <<>> /\ reading' = "eof" /\ lineNo' = INT_MAX)]_vars

\* a read has reported the end of the input at INT_MAX with characters
\* behind the continuation left to deliver
EndOfInputFakedAtIntMax ==
    /\ reading = "eof" /\ firstLine = INT_MAX /\ lineNo = INT_MAX
    /\ delivered # <<>> /\ Remaining # <<>>

(***************************************************************************)
(* DirectiveParser: #define with a repeated parameter.                     *)
(***************************************************************************)
\* the line after "define" is a name, a '(' without a space in front and a
\* list of names with commas between them, in which the name at j repeats
\* one in front of it
RepeatsParameterAt(line, j) ==
    /\ j <= Len(line) /\ line[2].type = "(" /\ ~line[2].sp
    /\ \A k \in 3..j : line[k].type = IF k % 2 = 1 THEN "IDENTIFIER" ELSE ","
    /\ j % 2 = 1
    /\ \E i \in 3..(j - 1) : i % 2 = 1 /\ line[i].text = line[j].text
RepeatsParameter(line) ==
    /\ Len(line) >= 5 /\ line[1].type = "IDENTIFIER"
    /\ \E j \in 5..Len(line) : RepeatsParameterAt(line, j)

\* C22 (as amended): a function-like #define whose parameter list repeats a
\* name, and whose macro name is neither predefined nor reserved (GL_...),
\* reports PP_MACRO_DUPLICATE_PARAMETER_NAMES and leaves the macro table
\* unchanged: the macro is not registered.
DuplicateParameterNotRegistered ==
    [][(/\ InputDirective' = "DIRECTIVE_DEFINE"
        /\ RepeatsParameter(InputLine')
        /\ ~isMacroPredefined(InputName'.text, mMacroSet)
        /\ ~isMacroNameReserved(InputName'.text))
       => (/\ "PP_MACRO_DUPLICATE_PARAMETER_NAMES" \in diags'
           /\ mMacroSet' = mMacroSet)]_vars

\* "#define A(x,B,x) 1" while A is not defined: reported, A is not defined
DuplicateParameterReached ==
    /\ InputDirective = "DIRECTIVE_DEFINE"
    /\ InputLine = <<Id(sA), LP, Id(sx), COMMA, Id(sB), COMMA, Id(sx), RP, T1>>
    /\ diags = {"PP_MACRO_DUPLICATE_PARAMETER_NAMES"}
    /\ sA \notin DOMAIN mMacroSet

\* C22 as stated: whatever the macro's name
EveryDuplicateParameterReported ==
    [][(InputDirective' = "DIRECTIVE_DEFINE" /\ RepeatsParameter(InputLine'))
       => (/\ "PP_MACRO_DUPLICATE_PARAMETER_NAMES" \in diags'
           /\ mMacroSet' = mMacroSet)]_vars

(***************************************************************************)
(* LLVMJIT.                                                                *)
(***************************************************************************)
\* a name without the underscores in front of it
RECURSIVE WithoutLeadingUnderscores(_)
WithoutLeadingUnderscores(name) ==
    IF name = <<>> THEN name
    ELSE IF Head(name) = "_" THEN WithoutLeadingUnderscores(Tail(name))
    ELSE name

\* C23: an external symbol that JIT-compiled code asks for resolves to the
\* address of a host function only if its name, with the leading
\* underscores removed, is one of the names of the fixed list; for any
\* other name no address is returned.
OnlyListedNamesResolveToHost ==
    \A k \in DOMAIN jitSymbols :
        jitSymbols[k].flags = "Absolute" =>
            \E j \in DOMAIN functions :
                functions[j] = WithoutLeadingUnderscores(jitSymbols[k].name)

(***************************************************************************)
(* The groups of a conditional chain.                                      *)
(***************************************************************************)
\* the current group of a block is not skipped
GroupEmitted(block) == ~block.skipBlock /\ ~block.skipGroup

\* the blocks that are open before and after the step
KeptBlocks == 1..Min(Len(mConditionalStack), Len(mConditionalStack'))

\* C24: of a conditional chain (#if, #ifdef or #ifndef, then #elif's, then
\* at most one #else, then #endif) the tokens of at most one group are
\* emitted.  Step by step: a token is returned only outside a skipped
\* group; a block whose current group is emitted is marked as having had
\* its valid group, and keeps the mark while it is open; a block opened
\* inside a skipped group is skipped as a whole, for good; and the group
\* that a #elif or #else begins, in a block that has had its valid group or
\* is skipped as a whole, is skipped.
AtMostOneGroupEmitted ==
    [][/\ (token' # NoToken /\ ~isEOD(token')) => ~skipping(PState')
       /\ mConditionalStack' # <<>> =>
              (GroupEmitted(TopBlock') => TopBlock'.foundValidGroup)
       /\ \A k \in KeptBlocks :
              /\ mConditionalStack[k].foundValidGroup
                     => mConditionalStack'[k].foundValidGroup
              /\ mConditionalStack'[k].skipBlock = mConditionalStack[k].skipBlock
              /\ k < Len(mConditionalStack) => mConditionalStack'[k] = mConditionalStack[k]
       /\ (Len(mConditionalStack') > Len(mConditionalStack) /\ skipping(PState))
              => TopBlock'.skipBlock
       /\ (/\ InputDirective' \in {"DIRECTIVE_ELIF", "DIRECTIVE_ELSE"}
           /\ mConditionalStack # <<>>
           /\ \/ TopBlock.skipBlock
              \/ TopBlock.foundValidGroup /\ ~TopBlock.foundElseGroup)
              => (/\ Len(mConditionalStack') = Len(mConditionalStack)
                  /\ ~GroupEmitted(TopBlock'))]_vars

\* the #else of an inner block whose first group was emitted: its group is
\* skipped, inside the emitted group of the outer block
ElseAfterEmittedGroupSkipped ==
    /\ InputDirective = "DIRECTIVE_ELSE"
    /\ diags = {}
    /\ Len(mConditionalStack) = MaxDepth
    /\ GroupEmitted(mConditionalStack[1])
    /\ TopBlock.foundElseGroup /\ TopBlock.skipGroup /\ ~TopBlock.skipBlock

(***************************************************************************)
(* Directives inside a skipped group.                                      *)
(***************************************************************************)
\* C25: while the parser is inside a skipped conditional group, a
\* directive that is not conditional (#define, #undef, #error, #pragma,
\* #extension, #version, #line, or an unknown name) has no effect: the
\* macro table, the shader version, the file number and the conditional
\* stack are unchanged, the line number only counts the newline that ends
\* the line, no handler is called and no diagnostic is reported for the
\* directive (at the end of the input, only the open block is reported).
SkippedDirectiveHasNoEffect ==
    [][(/\ skipping(PState)
        /\ input'.hash /\ input'.toks # <<>>
        /\ ~isConditionalDirective(InputDirective'))
       => (/\ mMacroSet' = mMacroSet
           /\ mShaderVersion' = mShaderVersion
           /\ fileNumber' = fileNumber
           /\ lineNumber' = IF input'.eod = "NEWLINE" THEN lineNumber + 1 ELSE lineNumber
           /\ mConditionalStack' = mConditionalStack
           /\ calls' = {}
           /\ diags' = IF input'.eod = "LAST" THEN {"PP_CONDITIONAL_UNTERMINATED"} ELSE {})]_vars

\* a #line 1 1 inside a skipped group, after an earlier line was counted:
\* the line and file numbers are as the tokenizer counts them
LineDirectiveSkipped ==
    /\ InputDirective = "DIRECTIVE_LINE" /\ InputLine = <<T1, T1>>
    /\ skipping(PState)
    /\ lineNumber = 3 /\ fileNumber = 0
    /\ diags = {} /\ calls = {}

(***************************************************************************)
(* The end of the input inside a conditional block.                        *)
(***************************************************************************)
\* C26: when the tokenizer delivers the end of the input while a
\* conditional block is open, lex reports PP_CONDITIONAL_UNTERMINATED, for
\* the innermost open block and no other, and returns the end-of-input
\* token instead of going round its loop again, also when the current
\* group is skipped.
UnterminatedBlockEndsLex ==
    [][(input'.eod = "LAST" /\ mConditionalStack' # <<>>)
       => (/\ "PP_CONDITIONAL_UNTERMINATED" \in diags'
           /\ unterminated' = <<TopBlock'>>
           /\ token'.type = "LAST")]_vars

\* the end of the input in the skipped #ifdef group of an emitted #if
\* group: the #ifdef block was reported, and lex returned
EndOfInputInSkippedGroup ==
    /\ ~input.hash /\ input.eod = "LAST"
    /\ Len(mConditionalStack) = MaxDepth
    /\ GroupEmitted(mConditionalStack[1]) /\ mConditionalStack[1].type = kDirectiveIf
    /\ TopBlock.skipGroup /\ TopBlock.type = kDirectiveIfdef
    /\ unterminated = <<TopBlock>>
    /\ token.type = "LAST"

(***************************************************************************)
(* The size of what Input::read copies.                                    *)
(***************************************************************************)
\* C27: for any strings and any maxSize, a call of Input::read writes at
\* most maxSize characters into the buffer and returns a count no greater
\* than maxSize: no call has copied past the first maxSize characters of
\* its buffer.
ReadWritesAtMostMaxSize == reading # "undefined"

(***************************************************************************)
(* SwiftConfig.                                                            *)
(***************************************************************************)
\* where the server thread reads or writes a setting
ServerAccesses ==
    {"readConfiguration", "readConfiguration more", "parsePost", "writeConfiguration",
     "page"}
\* where the calling thread does
CallerAccesses == {"copy", "copy more"}

\* C28: every read and every write of the configuration settings, by the
\* server thread or by a calling thread, happens while that thread holds
\* criticalSection.
SettingsAccessedInCriticalSection ==
    /\ serverThread \in ServerAccesses => criticalSection = "server"
    /\ caller \in CallerAccesses => criticalSection = "caller"

\* C29: after destroyServer has set terminate, the server thread
\* eventually leaves serverLoop, so that the join returns and the socket
\* and the receive buffer are released.
TerminateLeadsToRelease ==
    (terminate /\ caller = "join")
        ~> (caller = "destroyed" /\ ~listenSocket /\ ~receiveBuffer)

(***************************************************************************)
(* egl::Display.                                                           *)
(***************************************************************************)
\* the window surfaces of a set for a window
WindowSurfaces(surfaceSet, window) ==
    {surface \in surfaceSet : surface.isWindowSurface /\ surface.window = window}

AtMostOneSurfacePerWindow(surfaceSet) ==
    \A window \in Windows : Cardinality(WindowSurfaces(surfaceSet, window)) <= 1

\* the last step was a createWindowSurface for a window that had a surface
\* in the set (S being the set before it)
CreatedForWindowWithSurface(S) ==
    /\ eglCall'.name = "createWindowSurface"
    /\ WindowSurfaces(S, eglCall'.window) # {}

\* C30, as the code has it: after any sequence of calls the set holds at
\* most one window surface for each native window; a createWindowSurface
\* for a window that has a surface in the set returns EGL_NO_SURFACE and
\* leaves the set as it was, and its error is EGL_BAD_ALLOC when its
\* attribute list is one that the function accepts (otherwise it is the
\* error of the attribute list).
SecondWindowSurfaceRefused ==
    [][/\ AtMostOneSurfacePerWindow(mSurfaceSet')
       /\ CreatedForWindowWithSurface(mSurfaceSet)
              => (/\ eglReturned' = 0
                  /\ mSurfaceSet' = mSurfaceSet
                  /\ (eglCall'.attribList.null
                      \/ createWindowSurface_attribs(eglCall'.attribList.pairs)
                             = "EGL_SUCCESS")
                         => currentError' = "EGL_BAD_ALLOC")]_vars

\* a createWindowSurface with EGL_RENDER_BUFFER = EGL_BACK_BUFFER for a
\* window whose surface is in the set, next to a pbuffer surface: refused
\* with EGL_BAD_ALLOC
SecondWindowSurfaceRefusedReached ==
    /\ eglCall.name = "createWindowSurface"
    /\ eglCall.attribList.pairs = <<<<"EGL_RENDER_BUFFER", "EGL_BACK_BUFFER">>>>
    /\ WindowSurfaces(mSurfaceSet, eglCall.window) # {}
    /\ \E surface \in mSurfaceSet : ~surface.isWindowSurface
    /\ eglReturned = 0
    /\ currentError = "EGL_BAD_ALLOC"

\* C30 as stated: such a call always fails with EGL_BAD_ALLOC.
SecondWindowSurfaceIsBadAlloc ==
    [][/\ AtMostOneSurfacePerWindow(mSurfaceSet')
       /\ CreatedForWindowWithSurface(mSurfaceSet)
              => (/\ eglReturned' = 0
                  /\ mSurfaceSet' = mSurfaceSet
                  /\ currentError' = "EGL_BAD_ALLOC")]_vars


====
